---------------------------- MODULE Spec2Model ----------------------------
(***************************************************************************)
(* Model of github.com/jbrekelmans/go-lib, package http: the RFC 7235      *)
(* WWW-Authenticate challenge parser (parser.authParam, parser.challenge,  *)
(* parser.wwwAuthenticate, ParseWwwAuthenticateHeaderValue), the quoted-   *)
(* pair codec (WriteQuotedPair), the serializer                            *)
(* (NewWWWAuthenticateError, WWWAuthenticateError.HeaderValue) and the     *)
(* Bearer validator (ValidateBearerChallenge).                             *)
(*                                                                         *)
(* A Go string is a sequence of octets (0..255).  The parser cursor is the *)
(* record [pos, b]: p.pos and p.b of the Go parser struct.  Sub-parsers    *)
(* without loops over calls (next, ows, expect*, authParam) are operators; *)
(* the loops of challenge and wwwAuthenticate advance one iteration per    *)
(* action, so that the cursor is visible after every speculative attempt.  *)
(***************************************************************************)
EXTENDS Integers, Sequences, FiniteSets, TLC

VARIABLES
    input,        \* the generated input of the run (what Init chose)
    headerValue,  \* p.headerValue
    p,            \* [pos, b]: p.pos and p.b
    pc,           \* position in the program
    site,         \* which call of p.challenge() is running: "first" | "loop"
    wPosStart,    \* wwwAuthenticate: posStart
    challenges,   \* wwwAuthenticate: challenges
    wHTC,         \* wwwAuthenticate: hasTrailingComma (named result)
    wErr,         \* wwwAuthenticate: err (named result)
    challenge1,   \* challenge: challenge1
    cHTC,         \* challenge: hasTrailingComma (named result)
    ret,          \* what the last p.challenge() returned
    result,       \* what ParseWwwAuthenticateHeaderValue / authParam returned
    w,            \* what NewWWWAuthenticateError returned
    hvOut,        \* what HeaderValue returned
    bearerErr,    \* what ValidateBearerChallenge returned
    quoted,       \* what WriteQuotedPair / ValidateFormattableAsQuotedPair returned
    apOut,        \* what a direct call of p.authParam() returned
    b,            \* what NewBearerAuthorizer returned: the bearerAuthorizer
    resp,         \* the responses written to the http.ResponseWriter, in order
    tokenCalls,   \* the bearer tokens b.bearerTokenAuthorizer was called with
    tokenOut,     \* what b.bearerTokenAuthorizer returned
    authRet,      \* what Authorize returned
    cache,        \* the cachedEvaluator: [mutex, value, operation]
    ops,          \* the operations created so far, with their goroutines
    callers,      \* the goroutines that call Get or Evaluate
    crashed,      \* a goroutine died of a panic nothing recovers
    funcSlice,    \* CallInParallelReturnWhenAnyError: what each function does
    goroutines,   \* the goroutine of each function: [pc, canRecover, err2]
    errFirst,     \* errFirst
    waitGroup,    \* the counter of waitGroup
    mutex,        \* who holds mutex: 0 for nobody
    ctxCancelable,\* ctxCancelable is cancelled
    main,         \* the calling goroutine: [pc, i, ret]
    failed,       \* the functions that returned an error or panicked, in order
    headerValues, \* ParseRange: req.Header.Values("Range")
    remainder,    \* parseRangeHeaderValue: remainder
    ranges,       \* parseRangeHeaderValue: ranges
    rangePc,      \* position in ParseRange
    rangeRet,     \* what ParseRange returned
    checks,       \* Verify: what validateClaims2 and validateServiceAccountClaims do
    checkers,     \* Verify: the goroutine of each check: [pc, err]
    verify,       \* Verify: the calling goroutine: [pc, err, ret]
    ctxDone       \* Verify: the context given to the checks is cancelled

httpVars == <<input, headerValue, p, pc, site, wPosStart, challenges, wHTC, wErr,
              challenge1, cHTC, ret, result, w, hvOut, bearerErr, quoted, apOut>>

authVars == <<b, resp, tokenCalls, tokenOut, authRet>>

cacheVars == <<cache, ops, callers, crashed>>

parallelVars == <<funcSlice, goroutines, errFirst, waitGroup, mutex, ctxCancelable,
                  main, failed>>

rangeVars == <<headerValues, remainder, ranges, rangePc, rangeRet>>

verifyVars == <<checks, checkers, verify, ctxDone>>

\* The variables no parser, serializer or validator action touches.
notHttpVars == <<authVars, cacheVars, parallelVars, rangeVars, verifyVars>>

vars == <<httpVars, notHttpVars>>

parserVars == <<headerValue, p, site, wPosStart, challenges, wHTC, wErr,
                challenge1, cHTC, ret, result>>

-----------------------------------------------------------------------------
(* Octets.                                                                 *)

EOF == -1
HTAB == 9
SP == 32
DQUOTE == 34
COMMA == 44
EQUALS == 61
BACKSLASH == 92
DEL == 127

\* The empty Go string, and the nil error.
EmptyString == << >>
NoErr == "nil"

\* Literals of the source, as octet sequences.
StrRealm == <<114, 101, 97, 108, 109>>
StrBearer == <<66, 101, 97, 114, 101, 114>>
StrScope == <<115, 99, 111, 112, 101>>
StrError == <<101, 114, 114, 111, 114>>
StrErrorDescription ==
    <<101, 114, 114, 111, 114, 95, 100, 101, 115, 99, 114, 105, 112, 116, 105, 111, 110>>
StrErrorURI == <<101, 114, 114, 111, 114, 95, 117, 114, 105>>

IsAlpha(c) == (97 <= c /\ c <= 122) \/ (65 <= c /\ c <= 90)
IsDigit(c) == 48 <= c /\ c <= 57

\* httpguts.IsTokenRune restricted to i < 0x80: the tchar of RFC 7230,
\* "!#$%&'*+-.^_`|~" DIGIT ALPHA.
OctetFlagToken(c) ==
    /\ 0 <= c /\ c < 128
    /\ \/ IsAlpha(c)
       \/ IsDigit(c)
       \/ c \in {33, 35, 36, 37, 38, 39, 42, 43, 45, 46, 94, 95, 96, 124, 126}

\* isToken68Head: '-', '.', '_', '~', '+', '/', letters, digits.
isToken68Head(c) ==
    \/ c \in {45, 46, 95, 126, 43, 47}
    \/ IsAlpha(c)
    \/ IsDigit(c)

\* IsToken: httpguts.ValidHeaderFieldName, a non-empty run of token octets.
IsToken(val) ==
    /\ Len(val) > 0
    /\ \A i \in 1..Len(val) : OctetFlagToken(val[i])

\* IsToken68: the index i of the source is 0-based, val[i + 1] here.
RECURSIVE Token68Padding(_, _)
Token68Padding(val, i) ==
    IF val[i + 1] # EQUALS THEN FALSE
    ELSE IF i + 1 = Len(val) THEN TRUE
    ELSE Token68Padding(val, i + 1)

RECURSIVE Token68Body(_, _)
Token68Body(val, i) ==
    IF i = Len(val) THEN TRUE
    ELSE IF ~isToken68Head(val[i + 1]) THEN Token68Padding(val, i)
    ELSE Token68Body(val, i + 1)

IsToken68(val) ==
    IF Len(val) = 0 THEN FALSE
    ELSE IF ~isToken68Head(val[1]) THEN FALSE
    ELSE Token68Body(val, 1)

\* strings.ToLower / strings.EqualFold on ASCII octets.
LowerOctet(c) == IF 65 <= c /\ c <= 90 THEN c + 32 ELSE c
ToLower(s) == [i \in 1..Len(s) |-> LowerOctet(s[i])]
EqualFold(s, t) == ToLower(s) = ToLower(t)

\* strings.Contains(s, sub).
Contains(s, sub) ==
    \E i \in 0..(Len(s) - Len(sub)) : SubSeq(s, i + 1, i + Len(sub)) = sub

-----------------------------------------------------------------------------
(* The quoted-pair codec.                                                  *)

\* IsControlExceptTab without the test for 0x7F.
IsControlExceptTabOrDel(c) == c # HTAB /\ c < 32

\* The first case of the switch in WriteQuotedPair.
IsControlExceptTab(c) == (c # HTAB /\ c < 32) \/ c = DEL

\* WriteQuotedPairLoop with the backslash written before a double quote only.
RECURSIVE WriteQuotedPairLoopQuoteOnly(_, _, _)
WriteQuotedPairLoopQuoteOnly(sb, val, i) ==
    IF i > Len(val) THEN [sb |-> Append(sb, DQUOTE), err |-> NoErr]
    ELSE IF (val[i] # HTAB /\ val[i] < 32) \/ val[i] = DEL
    THEN [sb |-> sb, err |-> "value contains ASCII control character"]
    ELSE IF val[i] = DQUOTE
    THEN WriteQuotedPairLoopQuoteOnly(sb \o <<BACKSLASH, val[i]>>, val, i + 1)
    ELSE WriteQuotedPairLoopQuoteOnly(Append(sb, val[i]), val, i + 1)

\* WriteQuotedPair(sb, val): [sb |-> what sb holds on return, err].  On an
\* error the octets written so far stay in sb and the closing quote is not
\* written.
RECURSIVE WriteQuotedPairLoop(_, _, _)
WriteQuotedPairLoop(sb, val, i) ==
    IF i > Len(val) THEN [sb |-> Append(sb, DQUOTE), err |-> NoErr]
    ELSE IF IsControlExceptTab(val[i])
    THEN [sb |-> sb, err |-> "value contains ASCII control character"]
    ELSE IF val[i] = DQUOTE \/ val[i] = BACKSLASH
    THEN WriteQuotedPairLoop(sb \o <<BACKSLASH, val[i]>>, val, i + 1)
    ELSE WriteQuotedPairLoop(Append(sb, val[i]), val, i + 1)

WriteQuotedPair(sb, val) == WriteQuotedPairLoop(Append(sb, DQUOTE), val, 1)

ValidateFormattableAsQuotedPair(val) == WriteQuotedPair(EmptyString, val).err

-----------------------------------------------------------------------------
(* The parser's cursor operations.  hv is p.headerValue, q is [pos, b].    *)

\* parser{headerValue: headerValue, pos: -1}: b has Go's zero value.
NewParser == [pos |-> -1, b |-> 0]

next(hv, q) ==
    IF q.pos = Len(hv) THEN q
    ELSE IF q.pos + 1 = Len(hv) THEN [pos |-> q.pos + 1, b |-> EOF]
    ELSE [pos |-> q.pos + 1, b |-> hv[q.pos + 2]]

isTokenOctet(q) == 0 <= q.b /\ OctetFlagToken(q.b)

RECURSIVE ows(_, _)
ows(hv, q) == IF q.b = SP \/ q.b = HTAB THEN ows(hv, next(hv, q)) ELSE q

\* for p.isTokenOctet() { p.next() }
RECURSIVE skipTokenOctets(_, _)
skipTokenOctets(hv, q) ==
    IF isTokenOctet(q) THEN skipTokenOctets(hv, next(hv, q)) ELSE q

\* p.headerValue[from:to]
Slice(hv, from, to) == SubSeq(hv, from + 1, to)

\* A Param, and what stands for a nil *Param.
Param(attribute, value) == [Attribute |-> attribute, Value |-> value]
NilParam == Param(EmptyString, EmptyString)

\* quotedString with the backslash of a quoted-pair kept in the value.
RECURSIVE quotedStringKeepsBackslash(_, _, _)
quotedStringKeepsBackslash(hv, q, sb) ==
    LET q1 == next(hv, q) IN
    IF q1.b = DQUOTE THEN [q |-> q1, sb |-> sb, err |-> NoErr]
    ELSE IF q1.b = BACKSLASH
    THEN LET q2 == next(hv, q1) IN
         IF (q2.b < SP /\ q2.b # HTAB) \/ q2.b = DEL
         THEN [q |-> q2, sb |-> sb, err |-> "unexpected octet"]
         ELSE quotedStringKeepsBackslash(hv, q2, sb \o <<BACKSLASH, q2.b>>)
    ELSE IF (q1.b < SP /\ q1.b # HTAB) \/ q1.b = DEL
    THEN [q |-> q1, sb |-> sb, err |-> "unexpected octet"]
    ELSE quotedStringKeepsBackslash(hv, q1, Append(sb, q1.b))

\* quotedString taking any octet after a backslash as a quoted-pair.
RECURSIVE quotedStringAnyPair(_, _, _)
quotedStringAnyPair(hv, q, sb) ==
    LET q1 == next(hv, q) IN
    IF q1.b = DQUOTE THEN [q |-> q1, sb |-> sb, err |-> NoErr]
    ELSE IF q1.b = BACKSLASH
    THEN LET q2 == next(hv, q1) IN
         IF q2.b < 0
         THEN [q |-> q2, sb |-> sb, err |-> "incomplete quoted-pair"]
         ELSE quotedStringAnyPair(hv, q2, Append(sb, q2.b))
    ELSE IF q1.b = DEL THEN [q |-> q1, sb |-> sb, err |-> "unexpected octet"]
    ELSE IF q1.b < SP /\ q1.b # HTAB
    THEN [q |-> q1, sb |-> sb,
          err |-> IF q1.b < 0 THEN "unterminated quoted-string" ELSE "unexpected octet"]
    ELSE quotedStringAnyPair(hv, q1, Append(sb, q1.b))

\* The loop L of authParam, entered with the cursor on the opening quote:
\* [q |-> cursor, sb |-> the builder, err].
RECURSIVE quotedString(_, _, _)
quotedString(hv, q, sb) ==
    LET q1 == next(hv, q) IN
    IF q1.b = DQUOTE THEN [q |-> q1, sb |-> sb, err |-> NoErr]
    ELSE IF q1.b = BACKSLASH
    THEN LET q2 == next(hv, q1) IN
         IF (q2.b < SP /\ q2.b # HTAB) \/ q2.b = DEL
         THEN [q |-> q2, sb |-> sb,
               err |-> IF q2.b < 0 THEN "incomplete quoted-pair" ELSE "unexpected octet"]
         ELSE quotedString(hv, q2, Append(sb, q2.b))
    ELSE IF q1.b = DEL THEN [q |-> q1, sb |-> sb, err |-> "unexpected octet"]
    ELSE IF q1.b < SP /\ q1.b # HTAB
    THEN [q |-> q1, sb |-> sb,
          err |-> IF q1.b < 0 THEN "unterminated quoted-string" ELSE "unexpected octet"]
    ELSE quotedString(hv, q1, Append(sb, q1.b))

\* authParam without the deferred restore of p.pos.
authParamFailKeepsPos(posStart1, q, err) ==
    [q |-> q, arg |-> NilParam, err |-> err]

\* What the deferred function of authParam leaves: p.pos = posStart1, and p.b
\* as it was when the error was found (the defer assigns p.pos only).
authParamFail(posStart1, q, err) ==
    [q |-> [pos |-> posStart1, b |-> q.b], arg |-> NilParam, err |-> err]

\* The value part of authParam, after "=" and OWS.
authParamValue(hv, posStart1, attribute, q) ==
    IF q.b = DQUOTE
    THEN LET r == quotedString(hv, q, EmptyString) IN
         IF r.err # NoErr THEN authParamFail(posStart1, r.q, r.err)
         ELSE [q |-> next(hv, r.q), arg |-> Param(attribute, r.sb), err |-> NoErr]
    ELSE IF ~isTokenOctet(q)
    THEN authParamFail(posStart1, q, "expected token character")
    ELSE LET q1 == skipTokenOctets(hv, next(hv, q)) IN
         [q |-> q1, arg |-> Param(attribute, Slice(hv, q.pos, q1.pos)), err |-> NoErr]

\* parser.authParam: [q |-> cursor on return, arg, err].  The first
\* expectTokenOctet fails before the defer is installed and before anything
\* is consumed.
authParam(hv, q) ==
    IF ~isTokenOctet(q)
    THEN [q |-> q, arg |-> NilParam, err |-> "expected token character"]
    ELSE LET posStart1 == q.pos
             q1 == skipTokenOctets(hv, next(hv, q))
             attribute == Slice(hv, posStart1, q1.pos)
             q2 == ows(hv, q1)
         IN  IF q2.b # EQUALS
             THEN authParamFail(posStart1, q2, "expected octet =")
             ELSE authParamValue(hv, posStart1, attribute, ows(hv, next(hv, q2)))

\* A Challenge, and what stands for a nil *Challenge.
Challenge(scheme, params, token68) ==
    [Scheme |-> scheme, Params |-> params, Token68 |-> token68]
NilChallenge == Challenge(EmptyString, << >>, EmptyString)

\* The token68 scan of challenge (lines 296-307): the octet the cursor is on
\* is taken without a look, then token68 octets, then "=" padding.
RECURSIVE skipPadding(_, _)
skipPadding(hv, q) == IF q.b = EQUALS THEN skipPadding(hv, next(hv, q)) ELSE q

RECURSIVE scanToken68(_, _)
scanToken68(hv, q) ==
    LET q1 == next(hv, q) IN
    IF q1.b < 0 THEN q1
    ELSE IF ~isToken68Head(q1.b) THEN skipPadding(hv, q1)
    ELSE scanToken68(hv, q1)

\* for p.b == ',' { p.next(); p.ows() }
RECURSIVE skipLeadingCommas(_, _)
skipLeadingCommas(hv, q) ==
    IF q.b = COMMA THEN skipLeadingCommas(hv, ows(hv, next(hv, q))) ELSE q

-----------------------------------------------------------------------------
(* ParseWwwAuthenticateHeaderValue as a state machine.                     *)
(*   pc = "start"           about to build the parser and call p.next()    *)
(*        "wwwAuthenticate" at the top of wwwAuthenticate                  *)
(*        "challenge"       at the top of challenge                        *)
(*        "challengeL"      at the top of challenge's loop L               *)
(*        "challengeParams" at the top of challenge's second loop          *)
(*        "returned"        challenge has returned to wwwAuthenticate      *)
(*        "wwwLoop"         at the top of wwwAuthenticate's loop           *)
(*        "wwwReturned"     wwwAuthenticate has returned                   *)
(*        "done"            ParseWwwAuthenticateHeaderValue has returned   *)
(*        "panic"           a run-time panic unwound the call              *)

NoRet == [challenge |-> NilChallenge, hasTrailingComma |-> FALSE, err |-> NoErr]
NoResult == [status |-> "none", challenges |-> << >>, err |-> NoErr]

\* return from p.challenge()
ChallengeReturn(q, c, htc, err) ==
    /\ p' = q
    /\ ret' = [challenge |-> c, hasTrailingComma |-> htc, err |-> err]
    /\ pc' = "returned"

\* ParseWwwAuthenticateHeaderValue, lines 443-447 (r is nil).
ParseStart ==
    /\ UNCHANGED notHttpVars
    /\ pc = "start"
    /\ p' = next(headerValue, NewParser)
    /\ challenges' = << >>
    /\ pc' = "wwwAuthenticate"
    /\ UNCHANGED <<input, headerValue, site, wPosStart, wHTC, wErr, challenge1, cHTC,
                   ret, result, w, hvOut, bearerErr, quoted, apOut>>

\* wwwAuthenticate, lines 397-402: up to the first call of p.challenge().
WwwBegin ==
    /\ UNCHANGED notHttpVars
    /\ pc = "wwwAuthenticate"
    /\ wPosStart' = p.pos
    /\ p' = skipLeadingCommas(headerValue, p)
    /\ site' = "first"
    /\ pc' = "challenge"
    /\ UNCHANGED <<input, headerValue, challenges, wHTC, wErr, challenge1, cHTC,
                   ret, result, w, hvOut, bearerErr, quoted, apOut>>

\* challenge, lines 269-278 (and 341-342 when no space follows the scheme).
ChallengeBegin ==
    /\ UNCHANGED notHttpVars
    /\ pc = "challenge"
    /\ IF ~isTokenOctet(p)
       THEN /\ ChallengeReturn(p, NilChallenge, FALSE, "expected token character")
            /\ UNCHANGED <<challenge1, cHTC>>
       ELSE LET q == skipTokenOctets(headerValue, next(headerValue, p))
                c == Challenge(Slice(headerValue, p.pos, q.pos), << >>, EmptyString)
            IN  /\ challenge1' = c
                /\ cHTC' = FALSE
                /\ IF q.b = SP
                   THEN /\ p' = q
                        /\ pc' = "challengeL"
                        /\ UNCHANGED ret
                   ELSE ChallengeReturn(q, c, FALSE, NoErr)
    /\ UNCHANGED <<input, headerValue, site, wPosStart, challenges, wHTC, wErr,
                   result, w, hvOut, bearerErr, quoted, apOut>>

\* The loop L of challenge without its case -1: the end of the input goes to
\* the default case.
ChallengeLWithoutEndCase ==
    /\ UNCHANGED notHttpVars
    /\ pc = "challengeL"
    /\ LET q == next(headerValue, p) IN
       IF q.b = SP
       THEN /\ p' = q
            /\ UNCHANGED <<pc, challenge1, cHTC, ret, result>>
       ELSE IF q.b = COMMA
       THEN /\ p' = q
            /\ cHTC' = TRUE
            /\ pc' = "challengeParams"
            /\ UNCHANGED <<challenge1, ret, result>>
       ELSE LET a == authParam(headerValue, q) IN
            IF a.err # NoErr
            THEN IF a.q.b < 0
                 THEN /\ p' = a.q
                      /\ pc' = "panic"
                      /\ result' = [status |-> "panic", challenges |-> << >>,
                                    err |-> "index out of range [-1]"]
                      /\ UNCHANGED <<challenge1, cHTC, ret>>
                 ELSE IF isToken68Head(a.q.b)
                 THEN LET q2 == scanToken68(headerValue, a.q)
                          c == [challenge1 EXCEPT
                                  !.Token68 = Slice(headerValue, a.q.pos, q2.pos)]
                      IN  /\ challenge1' = c
                          /\ ChallengeReturn(q2, c, cHTC, NoErr)
                          /\ UNCHANGED <<cHTC, result>>
                 ELSE /\ ChallengeReturn(a.q, NilChallenge, cHTC,
                                         "expected auth-param, comma or token68")
                      /\ UNCHANGED <<challenge1, cHTC, result>>
            ELSE /\ p' = a.q
                 /\ challenge1' = [challenge1 EXCEPT !.Params = Append(@, a.arg)]
                 /\ pc' = "challengeParams"
                 /\ UNCHANGED <<cHTC, ret, result>>
    /\ UNCHANGED <<input, headerValue, site, wPosStart, challenges, wHTC, wErr,
                   w, hvOut, bearerErr, quoted, apOut>>

\* challenge, lines 280-319: one iteration of the loop L.  After a failed
\* auth-param, octetFlagArray[p.b] is indexed with p.b as authParam left it;
\* p.b = -1 is an index out of range, a run-time panic.
ChallengeL ==
    /\ UNCHANGED notHttpVars
    /\ pc = "challengeL"
    /\ LET q == next(headerValue, p) IN
       IF q.b = EOF
       THEN /\ ChallengeReturn(q, challenge1, cHTC, NoErr)
            /\ UNCHANGED <<challenge1, cHTC, result>>
       ELSE IF q.b = SP
       THEN /\ p' = q
            /\ UNCHANGED <<pc, challenge1, cHTC, ret, result>>
       ELSE IF q.b = COMMA
       THEN /\ p' = q
            /\ cHTC' = TRUE
            /\ pc' = "challengeParams"
            /\ UNCHANGED <<challenge1, ret, result>>
       ELSE LET a == authParam(headerValue, q) IN
            IF a.err # NoErr
            THEN IF a.q.b < 0
                 THEN /\ p' = a.q
                      /\ pc' = "panic"
                      /\ result' = [status |-> "panic", challenges |-> << >>,
                                    err |-> "index out of range [-1]"]
                      /\ UNCHANGED <<challenge1, cHTC, ret>>
                 ELSE IF isToken68Head(a.q.b)
                 THEN LET q2 == scanToken68(headerValue, a.q)
                          c == [challenge1 EXCEPT
                                  !.Token68 = Slice(headerValue, a.q.pos, q2.pos)]
                      IN  /\ challenge1' = c
                          /\ ChallengeReturn(q2, c, cHTC, NoErr)
                          /\ UNCHANGED <<cHTC, result>>
                 ELSE /\ ChallengeReturn(a.q, NilChallenge, cHTC,
                                         "expected auth-param, comma or token68")
                      /\ UNCHANGED <<challenge1, cHTC, result>>
            ELSE /\ p' = a.q
                 /\ challenge1' = [challenge1 EXCEPT !.Params = Append(@, a.arg)]
                 /\ pc' = "challengeParams"
                 /\ UNCHANGED <<cHTC, ret, result>>
    /\ UNCHANGED <<input, headerValue, site, wPosStart, challenges, wHTC, wErr,
                   w, hvOut, bearerErr, quoted, apOut>>

\* challenge, lines 321-339 (and 341-342 on the break): one iteration of the
\* second loop.  p.pos = posStart restores the position only.
ChallengeParams ==
    /\ UNCHANGED notHttpVars
    /\ pc = "challengeParams"
    /\ LET q == ows(headerValue, p) IN
       IF q.b # COMMA
       THEN /\ ChallengeReturn([pos |-> p.pos, b |-> q.b], challenge1, cHTC, NoErr)
            /\ UNCHANGED <<challenge1, cHTC>>
       ELSE LET q1 == next(headerValue, q)
                a == authParam(headerValue, ows(headerValue, q1))
            IN  IF a.err # NoErr
                THEN /\ p' = [pos |-> q1.pos, b |-> a.q.b]
                     /\ cHTC' = TRUE
                     /\ UNCHANGED <<pc, challenge1, ret>>
                ELSE /\ p' = a.q
                     /\ challenge1' = [challenge1 EXCEPT !.Params = Append(@, a.arg)]
                     /\ cHTC' = FALSE
                     /\ UNCHANGED <<pc, ret>>
    /\ UNCHANGED <<input, headerValue, site, wPosStart, challenges, wHTC, wErr,
                   result, w, hvOut, bearerErr, quoted, apOut>>

\* wwwAuthenticate, lines 402-407: the first p.challenge() has returned into
\* the named results hasTrailingComma and err.
WwwAfterFirst ==
    /\ UNCHANGED notHttpVars
    /\ pc = "returned"
    /\ site = "first"
    /\ wHTC' = ret.hasTrailingComma
    /\ wErr' = ret.err
    /\ IF ret.err # NoErr
       THEN /\ p' = [pos |-> wPosStart, b |-> p.b]
            /\ pc' = "wwwReturned"
            /\ UNCHANGED challenges
       ELSE /\ challenges' = Append(challenges, ret.challenge)
            /\ pc' = "wwwLoop"
            /\ UNCHANGED p
    /\ UNCHANGED <<input, headerValue, site, wPosStart, challenge1, cHTC, ret,
                   result, w, hvOut, bearerErr, quoted, apOut>>

\* wwwAuthenticate, lines 408-420 (and 427 on the break): one iteration of
\* the loop, up to the call of p.challenge().  The break returns the named
\* results as they stand, err included.
WwwLoop ==
    /\ UNCHANGED notHttpVars
    /\ pc = "wwwLoop"
    /\ LET q == ows(headerValue, p) IN
       IF ~wHTC /\ q.b # COMMA
       THEN /\ p' = [pos |-> p.pos, b |-> q.b]
            /\ pc' = "wwwReturned"
            /\ UNCHANGED <<wPosStart, site>>
       ELSE LET q1 == IF wHTC THEN p ELSE next(headerValue, q) IN
            /\ wPosStart' = q1.pos
            /\ p' = ows(headerValue, q1)
            /\ site' = "loop"
            /\ pc' = "challenge"
    /\ UNCHANGED <<input, headerValue, challenges, wHTC, wErr, challenge1, cHTC,
                   ret, result, w, hvOut, bearerErr, quoted, apOut>>

\* wwwAuthenticate, lines 420-425: a p.challenge() of the loop has returned.
WwwAfterLoop ==
    /\ UNCHANGED notHttpVars
    /\ pc = "returned"
    /\ site = "loop"
    /\ wHTC' = ret.hasTrailingComma
    /\ wErr' = ret.err
    /\ IF ret.err # NoErr
       THEN /\ p' = [pos |-> wPosStart, b |-> p.b]
            /\ UNCHANGED challenges
       ELSE /\ challenges' = Append(challenges, ret.challenge)
            /\ UNCHANGED p
    /\ pc' = "wwwLoop"
    /\ UNCHANGED <<input, headerValue, site, wPosStart, challenge1, cHTC, ret,
                   result, w, hvOut, bearerErr, quoted, apOut>>

\* ParseWwwAuthenticateHeaderValue, lines 448-455.
ParseFinish ==
    /\ UNCHANGED notHttpVars
    /\ pc = "wwwReturned"
    /\ result' = IF wErr # NoErr
                 THEN [status |-> "error", challenges |-> << >>, err |-> wErr]
                 ELSE IF p.pos # Len(headerValue)
                 THEN [status |-> "error", challenges |-> << >>, err |-> "unexpected octet"]
                 ELSE [status |-> "ok", challenges |-> challenges, err |-> NoErr]
    /\ pc' = "done"
    /\ UNCHANGED <<input, headerValue, p, site, wPosStart, challenges, wHTC, wErr,
                   challenge1, cHTC, ret, w, hvOut, bearerErr, quoted, apOut>>

ParseNext ==
    \/ ParseStart
    \/ WwwBegin
    \/ ChallengeBegin
    \/ ChallengeL
    \/ ChallengeParams
    \/ WwwAfterFirst
    \/ WwwLoop
    \/ WwwAfterLoop
    \/ ParseFinish

-----------------------------------------------------------------------------
(* The serializer: NewWWWAuthenticateError and HeaderValue.                *)

\* NewWWWAuthenticateError, lines 36-46, for one param.  Line 43 is
\*     if ValidateFormattableAsQuotedPair(param.Value); err != nil {
\* the call is the if's init statement and its result is dropped; the
\* condition reads the named result err, which is nil here.
NewErrorParamErr(err, param) ==
    IF ~IsToken(param.Attribute) THEN "Attribute is not a valid token"
    ELSE LET dropped == ValidateFormattableAsQuotedPair(param.Value) IN
         IF err # NoErr THEN "Value is invalid" ELSE NoErr

RECURSIVE NewErrorParamsErr(_, _)
NewErrorParamsErr(params, j) ==
    IF j > Len(params) THEN NoErr
    ELSE LET e == NewErrorParamErr(NoErr, params[j]) IN
         IF e # NoErr THEN e ELSE NewErrorParamsErr(params, j + 1)

\* NewWWWAuthenticateError, lines 25-46, for one challenge.
NewErrorChallengeErr(c) ==
    IF ~IsToken(c.Scheme) THEN "Scheme is not a valid token"
    ELSE IF c.Token68 = EmptyString /\ Len(c.Params) = 0
    THEN "Token68 must not be empty or Params must not be nil or empty"
    ELSE IF c.Token68 # EmptyString /\ Len(c.Params) > 0
    THEN "either Token68 must be empty or Params must not be empty"
    ELSE IF c.Token68 # EmptyString /\ ~IsToken68(c.Token68) THEN "Token68 is invalid"
    ELSE NewErrorParamsErr(c.Params, 1)

RECURSIVE NewErrorChallengesErr(_, _)
NewErrorChallengesErr(chs, i) ==
    IF i > Len(chs) THEN NoErr
    ELSE LET e == NewErrorChallengeErr(chs[i]) IN
         IF e # NoErr THEN e ELSE NewErrorChallengesErr(chs, i + 1)

\* NewWWWAuthenticateError: [challenges |-> w.challenges, err]; on an error w
\* is nil.
NewWWWAuthenticateError(chs) ==
    LET e == IF Len(chs) = 0 THEN "challenges must not be nil or empty"
             ELSE NewErrorChallengesErr(chs, 1)
    IN  [challenges |-> IF e = NoErr THEN chs ELSE << >>, err |-> e]

\* HasRealm with the attribute compared exactly.
HasRealmExact(params) == \E j \in 1..Len(params) : params[j].Attribute = StrRealm

\* HeaderValue, lines 77-83.
HasRealm(params) == \E j \in 1..Len(params) : EqualFold(params[j].Attribute, StrRealm)

\* HeaderValue, lines 88-96: the params from index j (1-based) on.  The error
\* of WriteQuotedPair is dropped and what it wrote is kept.
RECURSIVE HeaderValueParams(_, _, _, _)
HeaderValueParams(sb, params, j, hasRealm) ==
    IF j > Len(params) THEN sb
    ELSE LET sb1 == IF j > 1 \/ ~hasRealm THEN Append(sb, COMMA) ELSE sb
             sb2 == Append(sb1 \o params[j].Attribute, EQUALS)
         IN  HeaderValueParams(WriteQuotedPair(sb2, params[j].Value).sb,
                               params, j + 1, hasRealm)

\* HeaderValue, lines 68-98: the challenges from index i (1-based) on.
RECURSIVE HeaderValueChallenges(_, _, _, _)
HeaderValueChallenges(sb, chs, i, defaultRealm) ==
    IF i > Len(chs) THEN sb
    ELSE LET c == chs[i]
             sb1 == IF i > 1 THEN Append(sb, COMMA) ELSE sb
             sb2 == Append(sb1 \o c.Scheme, SP)
             hasRealm == HasRealm(c.Params)
             sb3 == IF c.Token68 # EmptyString THEN sb2 \o c.Token68
                    ELSE HeaderValueParams(
                           IF hasRealm THEN sb2
                           ELSE WriteQuotedPair(Append(sb2 \o StrRealm, EQUALS),
                                                defaultRealm).sb,
                           c.Params, 1, hasRealm)
         IN  HeaderValueChallenges(sb3, chs, i + 1, defaultRealm)

\* WWWAuthenticateError.HeaderValue: [value, err].
HeaderValue(chs, defaultRealm) ==
    IF ValidateFormattableAsQuotedPair(defaultRealm) # NoErr
    THEN [value |-> EmptyString, err |-> "invalid defaultRealm"]
    ELSE [value |-> HeaderValueChallenges(EmptyString, chs, 1, defaultRealm),
          err |-> NoErr]

-----------------------------------------------------------------------------
(* The Bearer validator.                                                   *)

\* strings.Split(s, " "): the pieces between the spaces, empty ones included.
RECURSIVE SplitOnSpace(_, _, _)
SplitOnSpace(s, i, piece) ==
    IF i > Len(s) THEN <<piece>>
    ELSE IF s[i] = SP THEN <<piece>> \o SplitOnSpace(s, i + 1, EmptyString)
    ELSE SplitOnSpace(s, i + 1, Append(piece, s[i]))

\* The arguments of strings.Contains in ValidateBearerChallenge: the Go
\* literals "\\\"\t" and "\\\"\t ".
StrBackslashQuoteTab == <<BACKSLASH, DQUOTE, HTAB>>
StrBackslashQuoteTabSpace == <<BACKSLASH, DQUOTE, HTAB, SP>>

\* ValidateBearerChallenge, lines 163-172.
RECURSIVE ScopeValuesErr(_, _)
ScopeValuesErr(values, k) ==
    IF k > Len(values) THEN NoErr
    ELSE IF Len(values[k]) = 0 THEN "scope must not be empty"
    ELSE IF Contains(values[k], StrBackslashQuoteTab) THEN "scope value is invalid"
    ELSE ScopeValuesErr(values, k + 1)

\* ValidateBearerChallenge, lines 151-192: the early returns of the switch.
BearerParamErr(param) ==
    IF ToLower(param.Attribute) = StrRealm THEN NoErr
    ELSE IF param.Attribute = StrScope
    THEN ScopeValuesErr(SplitOnSpace(param.Value, 1, EmptyString), 1)
    ELSE IF param.Attribute = StrError
    THEN IF Contains(param.Value, StrBackslashQuoteTab) THEN "error is invalid" ELSE NoErr
    ELSE IF param.Attribute = StrErrorDescription
    THEN IF Contains(param.Value, StrBackslashQuoteTab)
         THEN "error_description is invalid" ELSE NoErr
    ELSE IF param.Attribute = StrErrorURI
    THEN IF Contains(param.Value, StrBackslashQuoteTabSpace)
         THEN "error_uri is invalid" ELSE NoErr
    ELSE NoErr

RECURSIVE BearerParamsErr(_, _)
BearerParamsErr(params, j) ==
    IF j > Len(params) THEN NoErr
    ELSE LET e == BearerParamErr(params[j]) IN
         IF e # NoErr THEN e ELSE BearerParamsErr(params, j + 1)

\* BearerCount with every attribute compared case-insensitively.
BearerCountAnyCase(params, attribute) ==
    Cardinality({j \in 1..Len(params) : ToLower(params[j].Attribute) = attribute})

\* realmCount, scopeCount, ...: the params the switch counts under a case.
BearerCount(params, attribute) ==
    Cardinality({j \in 1..Len(params) :
        IF attribute = StrRealm THEN ToLower(params[j].Attribute) = StrRealm
        ELSE /\ ToLower(params[j].Attribute) # StrRealm
             /\ params[j].Attribute = attribute})

\* The scheme test against the lower-case spelling.
BearerSchemeIsLower(scheme) == scheme = ToLower(StrBearer)

\* ValidateBearerChallenge, line 141: the scheme test.
BearerSchemeOk(scheme) == scheme = StrBearer

\* ValidateBearerChallenge, lines 141-213, for one challenge.
BearerChallengeErr(c) ==
    IF ~BearerSchemeOk(c.Scheme) THEN "Scheme must be case-insensitive equal to Bearer"
    ELSE LET e == BearerParamsErr(c.Params, 1) IN
         IF e # NoErr THEN e
         ELSE IF BearerCount(c.Params, StrRealm) > 1 THEN "multiple realm"
         ELSE IF BearerCount(c.Params, StrScope) > 1 THEN "multiple scope"
         ELSE IF BearerCount(c.Params, StrError) > 1 THEN "multiple error"
         ELSE IF BearerCount(c.Params, StrErrorDescription) > 1
         THEN "multiple error_description"
         ELSE IF BearerCount(c.Params, StrErrorURI) > 1 THEN "multiple error_uri"
         ELSE NoErr

\* ValidateBearerChallenge: the error, NoErr for nil.  chs is w.challenges
\* of a w that NewWWWAuthenticateError returned, so it is not nil.
RECURSIVE ValidateBearerChallengeFrom(_, _)
ValidateBearerChallengeFrom(chs, i) ==
    IF i > Len(chs) THEN NoErr
    ELSE LET e == BearerChallengeErr(chs[i]) IN
         IF e # NoErr THEN e ELSE ValidateBearerChallengeFrom(chs, i + 1)

ValidateBearerChallenge(chs) == ValidateBearerChallengeFrom(chs, 1)

-----------------------------------------------------------------------------
(* The callers: construction, validation, formatting, quoting.             *)
(*   pc = "new"         about to call NewWWWAuthenticateError              *)
(*        "constructed" NewWWWAuthenticateError returned a w               *)
(*        "quote"       about to call WriteQuotedPair                      *)
(*        "authParam"   about to call p.authParam() on attr=<quoted>       *)

NoW == [challenges |-> << >>, err |-> "none"]
NoHvOut == [value |-> EmptyString, err |-> "none"]
NoQuoted == [sb |-> EmptyString, err |-> "none", validateErr |-> "none"]
NoApOut == [arg |-> NilParam, err |-> "none"]

\* w, err := NewWWWAuthenticateError(error, challenges)
NewError ==
    /\ UNCHANGED notHttpVars
    /\ pc = "new"
    /\ w' = NewWWWAuthenticateError(input.challenges)
    /\ pc' = IF w'.err = NoErr THEN "constructed" ELSE "done"
    /\ UNCHANGED <<input, headerValue, p, site, wPosStart, challenges, wHTC, wErr,
                   challenge1, cHTC, ret, result, hvOut, bearerErr, quoted, apOut>>

\* err := ValidateBearerChallenge(w)
ValidateBearer ==
    /\ UNCHANGED notHttpVars
    /\ pc = "constructed"
    /\ bearerErr' = ValidateBearerChallenge(w.challenges)
    /\ pc' = "done"
    /\ UNCHANGED <<input, headerValue, p, site, wPosStart, challenges, wHTC, wErr,
                   challenge1, cHTC, ret, result, w, hvOut, quoted, apOut>>

\* headerValue, err := w.HeaderValue(defaultRealm); a value that was returned
\* is what ParseWwwAuthenticateHeaderValue(nil, headerValue) is then given.
Format ==
    /\ UNCHANGED notHttpVars
    /\ pc = "constructed"
    /\ hvOut' = HeaderValue(w.challenges, input.realm)
    /\ headerValue' = hvOut'.value
    /\ pc' = IF hvOut'.err = NoErr THEN "start" ELSE "done"
    /\ UNCHANGED <<input, p, site, wPosStart, challenges, wHTC, wErr,
                   challenge1, cHTC, ret, result, w, bearerErr, quoted, apOut>>

\* The attribute of the auth-param the quoted value is parsed in: "a".
StrAttr == <<97>>

\* err := WriteQuotedPair(&sb, val) on an empty builder, and
\* ValidateFormattableAsQuotedPair(val); the parser for attr=<sb> is built
\* when the value was written.
Quote ==
    /\ UNCHANGED notHttpVars
    /\ pc = "quote"
    /\ LET r == WriteQuotedPair(EmptyString, input.value) IN
       /\ quoted' = [sb |-> r.sb, err |-> r.err,
                     validateErr |-> ValidateFormattableAsQuotedPair(input.value)]
       /\ IF r.err = NoErr
          THEN /\ headerValue' = Append(StrAttr, EQUALS) \o r.sb
               /\ p' = next(headerValue', NewParser)
               /\ pc' = "authParam"
          ELSE /\ pc' = "done"
               /\ UNCHANGED <<headerValue, p>>
    /\ UNCHANGED <<input, site, wPosStart, challenges, wHTC, wErr,
                   challenge1, cHTC, ret, result, w, hvOut, bearerErr, apOut>>

\* arg, err := p.authParam()
ParseQuoted ==
    /\ UNCHANGED notHttpVars
    /\ pc = "authParam"
    /\ LET a == authParam(headerValue, p) IN
       /\ apOut' = [arg |-> a.arg, err |-> a.err]
       /\ p' = a.q
    /\ pc' = "done"
    /\ UNCHANGED <<input, headerValue, site, wPosStart, challenges, wHTC, wErr,
                   challenge1, cHTC, ret, result, w, hvOut, bearerErr, quoted>>

-----------------------------------------------------------------------------
(* Inputs.                                                                 *)

\* The sequences over S of length at most n.
SeqsUpTo(S, n) == UNION {[1..k -> S] : k \in 0..n}

RECURSIVE Flatten(_)
Flatten(ss) == IF Len(ss) = 0 THEN << >> ELSE Head(ss) \o Flatten(Tail(ss))

NoInput ==
    [kind |-> "none", scheme |-> EmptyString, token68 |-> EmptyString, segs |-> << >>,
     challenges |-> << >>, realm |-> EmptyString, value |-> EmptyString,
     headers |-> << >>, authorizer |-> "none", error |-> EmptyString]

NoAuthorizer == [realm |-> EmptyString, err |-> "none"]
NoTokenOut == [data |-> "none", err |-> "none", w |-> NoW]

\* NewCachedEvaluator(evaluator): no value, no operation, the mutex free.
NewCachedEvaluator == [mutex |-> 0, value |-> 0, operation |-> 0]

\* No goroutine uses a CachedEvaluator.
CacheIdle ==
    /\ cache = NewCachedEvaluator
    /\ ops = << >>
    /\ callers = << >>
    /\ crashed = FALSE

NoError == [kind |-> "nil", of |-> 0]

\* CallInParallelReturnWhenAnyError is not called.
ParallelIdle ==
    /\ funcSlice = << >>
    /\ goroutines = << >>
    /\ errFirst = NoError
    /\ waitGroup = 0
    /\ mutex = 0
    /\ ctxCancelable = FALSE
    /\ main = [pc |-> "idle", i |-> 0, ret |-> NoError]
    /\ failed = << >>

NoRangeRet == [status |-> "none", ranges |-> << >>, err |-> NoErr]

\* ParseRange is not called.
RangeIdle ==
    /\ headerValues = << >>
    /\ remainder = EmptyString
    /\ ranges = << >>
    /\ rangePc = "idle"
    /\ rangeRet = NoRangeRet

NoVerifyRet == [identity |-> "none", err |-> "none"]

\* Verify is not called.
VerifyIdle ==
    /\ checks = << >>
    /\ checkers = << >>
    /\ verify = [pc |-> "idle", err |-> NoErr, ret |-> NoVerifyRet]
    /\ ctxDone = FALSE

\* The state of package http before the run for input in, header value hv
\* and entry point at.
StartHttp(in, hv, at) ==
    /\ input = in
    /\ headerValue = hv
    /\ pc = at
    /\ p = NewParser
    /\ site = "none"
    /\ wPosStart = 0
    /\ challenges = << >>
    /\ wHTC = FALSE
    /\ wErr = NoErr
    /\ challenge1 = NilChallenge
    /\ cHTC = FALSE
    /\ ret = NoRet
    /\ result = NoResult
    /\ w = NoW
    /\ hvOut = NoHvOut
    /\ bearerErr = "none"
    /\ quoted = NoQuoted
    /\ apOut = NoApOut
    /\ b = NoAuthorizer
    /\ resp = << >>
    /\ tokenCalls = << >>
    /\ tokenOut = NoTokenOut
    /\ authRet = "none"

\* The state before a run of package http: the other packages are idle.
Start(in, hv, at) ==
    /\ StartHttp(in, hv, at)
    /\ CacheIdle
    /\ ParallelIdle
    /\ RangeIdle
    /\ VerifyIdle

(* Raw header values: every octet string over HeaderOctets of length at    *)
(* most MaxHeaderLen.  a: token and token68; !: token only; /: token68     *)
(* only; then "=", space, comma and the double quote.                      *)
MaxHeaderLen == 5
HeaderOctets == {97, 33, 47, EQUALS, SP, COMMA, DQUOTE}

InitRaw ==
    \E hv \in SeqsUpTo(HeaderOctets, MaxHeaderLen) :
        Start([NoInput EXCEPT !.kind = "raw"], hv, "start")

\* ParseWwwAuthenticateHeaderValue on every raw header value.
Next == ParseNext
Spec == InitRaw /\ [][Next]_vars

(* Parameter lists: scheme SP segment *( "," segment ).  A segment is a     *)
(* well-formed auth-param, token "=" ( token / quoted-string ), given with *)
(* the Param it denotes, or a malformed one.  A quoted-string is written   *)
(* from items <<octet, escaped>>: qdtext when not escaped, a quoted-pair   *)
(* when escaped.                                                           *)
MaxSegments == 3
ParamSchemes == {<<97>>, <<66, 33>>}

TokenSegment(attribute, value) ==
    [ok |-> TRUE, param |-> Param(attribute, value),
     text |-> Append(attribute, EQUALS) \o value]

ItemText(item) == IF item[2] THEN <<BACKSLASH, item[1]>> ELSE <<item[1]>>

QuotedSegment(attribute, items) ==
    [ok |-> TRUE,
     param |-> Param(attribute, [i \in 1..Len(items) |-> items[i][1]]),
     text |-> Append(attribute, EQUALS) \o <<DQUOTE>>
              \o Flatten([i \in 1..Len(items) |-> ItemText(items[i])]) \o <<DQUOTE>>]

MalformedSegment(text) == [ok |-> FALSE, param |-> NilParam, text |-> text]

\* a=a  b=""  a="b"  b="\""  a="\\ ,"  b="\a<0x80>"
WellFormedSegments ==
    { TokenSegment(<<97>>, <<97>>),
      QuotedSegment(<<98>>, << >>),
      QuotedSegment(<<97>>, << <<98, FALSE>> >>),
      QuotedSegment(<<98>>, << <<DQUOTE, TRUE>> >>),
      QuotedSegment(<<97>>, << <<BACKSLASH, TRUE>>, <<SP, FALSE>>, <<COMMA, FALSE>> >>),
      QuotedSegment(<<98>>, << <<97, TRUE>>, <<128, FALSE>> >>) }

\* the empty segment, a=, a, =a
MalformedSegments ==
    { MalformedSegment(<< >>), MalformedSegment(<<97, EQUALS>>),
      MalformedSegment(<<97>>), MalformedSegment(<<EQUALS, 97>>) }

Segments == WellFormedSegments \cup MalformedSegments

RECURSIVE JoinSegments(_, _)
JoinSegments(segs, i) ==
    IF i > Len(segs) THEN << >>
    ELSE (IF i > 1 THEN <<COMMA>> ELSE << >>) \o segs[i].text \o JoinSegments(segs, i + 1)

InitParams ==
    \E scheme \in ParamSchemes :
        \E segs \in SeqsUpTo(Segments, MaxSegments) \ {<< >>} :
            Start([NoInput EXCEPT !.kind = "params", !.scheme = scheme, !.segs = segs],
                  Append(scheme, SP) \o JoinSegments(segs, 1), "start")

\* ParseWwwAuthenticateHeaderValue on every parameter list.
SpecParams == InitParams /\ [][Next]_vars

(* Challenge sequences for NewWWWAuthenticateError: at most MaxChallenges  *)
(* challenges holding at most MaxParams params between them, invalid       *)
(* combinations included, and a default realm.                             *)
MaxChallenges == 2
MaxParams == 3
FormatSchemes == {<<97>>, <<66>>}
FormatToken68s == {EmptyString, <<47, 97, EQUALS>>}
\* Realm="r"  a="\ (quote, backslash, space)  a=b<0x01>c
FormatParams ==
    { Param(<<82, 101, 97, 108, 109>>, <<114>>),
      Param(<<97>>, <<DQUOTE, BACKSLASH, SP>>),
      Param(<<97>>, <<98, 1, 99>>) }
\* "", r", r<0x7F>
FormatRealms == {EmptyString, <<114, DQUOTE>>, <<114, DEL>>}

\* The challenges with exactly k params.
ChallengesWith(schemes, token68s, params, k) ==
    {Challenge(s, ps, t) : s \in schemes, ps \in [1..k -> params], t \in token68s}

\* The sequences of exactly n challenges with at most m params in all.
RECURSIVE ChallengeLists(_, _, _, _, _)
ChallengeLists(schemes, token68s, params, n, m) ==
    IF n = 0 THEN {<< >>}
    ELSE UNION {
           {<<c>> \o rest :
              c \in ChallengesWith(schemes, token68s, params, k),
              rest \in ChallengeLists(schemes, token68s, params, n - 1, m - k)}
           : k \in 0..m}

InitFormat ==
    \E n \in 0..MaxChallenges :
        \E chs \in ChallengeLists(FormatSchemes, FormatToken68s, FormatParams, n, MaxParams) :
            \E realm \in FormatRealms :
                Start([NoInput EXCEPT !.kind = "challenges", !.challenges = chs,
                                      !.realm = realm],
                      EmptyString, "new")

\* NewWWWAuthenticateError, then HeaderValue.
NextFormat == NewError \/ Format
SpecFormat == InitFormat /\ [][NextFormat]_vars

\* NewWWWAuthenticateError, HeaderValue, then ParseWwwAuthenticateHeaderValue
\* on the value.
NextRoundTrip == NewError \/ Format \/ ParseNext
SpecRoundTrip == InitFormat /\ [][NextRoundTrip]_vars

(* Challenges for ValidateBearerChallenge: one challenge, its scheme a     *)
(* spelling of Bearer or another scheme, with at most MaxBearerParams      *)
(* params.                                                                 *)
MaxBearerParams == 2
\* Bearer, bearer, BEARER, Basic
BearerSchemes ==
    { StrBearer, ToLower(StrBearer), <<66, 69, 65, 82, 69, 82>>, <<66, 97, 115, 105, 99>> }
\* realm="r"  REALM="r"  scope="a b"  scope="a  b"  error="x"  error_uri="u v"
\* Scope="a"  error_description="d"  error_uri="u"
\* scope=a"b  scope=a<0x01>  error=x"  error_description=\d  error_uri=u"
\* and the values that are the literals of the strings.Contains calls.
BearerParams ==
    { Param(StrRealm, <<114>>),
      Param(<<82, 69, 65, 76, 77>>, <<114>>),
      Param(StrScope, <<97, SP, 98>>),
      Param(StrScope, <<97, SP, SP, 98>>),
      Param(StrError, <<120>>),
      Param(StrErrorURI, <<117, SP, 118>>),
      Param(<<83, 99, 111, 112, 101>>, <<97>>),
      Param(StrErrorDescription, <<100>>),
      Param(StrErrorURI, <<117>>),
      Param(StrScope, <<97, DQUOTE, 98>>),
      Param(StrScope, <<97, 1>>),
      Param(StrError, <<120, DQUOTE>>),
      Param(StrErrorDescription, <<BACKSLASH, 100>>),
      Param(StrErrorURI, <<117, DQUOTE>>),
      Param(StrScope, StrBackslashQuoteTab),
      Param(StrError, StrBackslashQuoteTab),
      Param(StrErrorURI, StrBackslashQuoteTabSpace) }

InitBearer ==
    \E k \in 1..MaxBearerParams :
        \E c \in ChallengesWith(BearerSchemes, {EmptyString}, BearerParams, k) :
            Start([NoInput EXCEPT !.kind = "bearer", !.challenges = <<c>>],
                  EmptyString, "new")

\* NewWWWAuthenticateError, then ValidateBearerChallenge.
NextBearer == NewError \/ ValidateBearer
SpecBearer == InitBearer /\ [][NextBearer]_vars

(* Values for WriteQuotedPair: every octet string over ValueOctets of      *)
(* length at most MaxValueLen.                                             *)
MaxValueLen == 3
ValueOctets == {0, HTAB, 31, SP, DQUOTE, BACKSLASH, 97, DEL, 128}

InitQuote ==
    \E value \in SeqsUpTo(ValueOctets, MaxValueLen) :
        Start([NoInput EXCEPT !.kind = "quote", !.value = value], EmptyString, "quote")

\* WriteQuotedPair, then p.authParam() on attr=<what was written>.
NextQuote == Quote \/ ParseQuoted
SpecQuote == InitQuote /\ [][NextQuote]_vars

-----------------------------------------------------------------------------
(* The claims.                                                             *)

\* The call under way has ended: it returned, or a panic unwound it.
Ended == pc \in {"done", "panic"}

\* hv is s SP t for a scheme token s and a t that IsToken68 accepts; the
\* space is the first one, as neither s nor t holds a space.
SchemeToken68Split(hv) ==
    {i \in 1..Len(hv) :
        /\ hv[i] = SP
        /\ IsToken(SubSeq(hv, 1, i - 1))
        /\ IsToken68(SubSeq(hv, i + 1, Len(hv)))}

\* C1: for every scheme token s and every t accepted by IsToken68,
\* ParseWwwAuthenticateHeaderValue(nil, s + " " + t) succeeds and returns
\* exactly one challenge with Scheme = s, Token68 = t and no params.
C1_Token68Challenge ==
    \A i \in SchemeToken68Split(headerValue) :
        Ended =>
            /\ result.status = "ok"
            /\ result.challenges =
                 <<Challenge(SubSeq(headerValue, 1, i - 1), << >>,
                             SubSeq(headerValue, i + 1, Len(headerValue)))>>

\* C4: whenever at least one challenge was parsed and the cursor has reached
\* the end of the input, ParseWwwAuthenticateHeaderValue succeeds; the error
\* of a failed speculative attempt is never the one returned.
C4_OnlyUnconsumedInputFails ==
    (pc = "done" /\ Len(challenges) >= 1 /\ p.pos = Len(headerValue)) =>
        result.status = "ok"

\* The segments of the input are all well-formed auth-params.
AllWellFormed(segs) == \A i \in 1..Len(segs) : segs[i].ok

\* The Params the segments 1..k denote.
ParamsOf(segs, k) == [i \in 1..k |-> segs[i].param]

\* The k for which segments 1..k are well-formed auth-params and all the
\* later ones, at least one, are malformed.
MalformedTrailFrom(segs) ==
    {k \in 1..(Len(segs) - 1) :
        /\ \A i \in 1..k : segs[i].ok
        /\ \A i \in (k + 1)..Len(segs) : ~segs[i].ok}

\* C5: parsing a valid challenge followed by malformed trailing parameter
\* segments (such as `Bearer realm="r",,scope=`) is not aborted: no error is
\* returned and the result holds that challenge with the params that were
\* validly parsed before the malformed segments.
C5_MalformedTrailKeepsChallenge ==
    \A k \in MalformedTrailFrom(input.segs) :
        Ended =>
            /\ result.status = "ok"
            /\ Len(result.challenges) >= 1
            /\ result.challenges[1].Scheme = input.scheme
            /\ Len(result.challenges[1].Params) >= k
            /\ SubSeq(result.challenges[1].Params, 1, k) = ParamsOf(input.segs, k)

\* C6: for every header value scheme SP auth-param *( "," auth-param ), each
\* auth-param being token "=" ( token | quoted-string ), the parse ends
\* without a panic and returns exactly one challenge: the scheme token, an
\* empty Token68, and the auth-params in input order with the quoted-string
\* values unquoted and unescaped.
C6_ParamListChallenge ==
    (input.kind = "params" /\ AllWellFormed(input.segs)) =>
        /\ pc # "panic"
        /\ pc = "done" =>
             /\ result.status = "ok"
             /\ result.challenges =
                  <<Challenge(input.scheme, ParamsOf(input.segs, Len(input.segs)),
                              EmptyString)>>

\* C6's case: a list of several auth-params, one of them a quoted-string
\* with a quoted-pair in it, has been parsed.
C6_Witness ==
    /\ pc = "done"
    /\ input.kind = "params"
    /\ AllWellFormed(input.segs)
    /\ Len(input.segs) >= 2
    /\ \E i \in 1..Len(input.segs) : Contains(input.segs[i].text, <<BACKSLASH, DQUOTE>>)

\* val holds an ASCII control character other than horizontal tab: an octet
\* in 0x00-0x1F except 0x09, or 0x7F.
HasControl(val) == \E i \in 1..Len(val) : val[i] \in ((0..31) \ {9}) \cup {127}

\* val in double quotes, a backslash put before every double quote and
\* backslash, nothing else changed.
Escaped(val) ==
    Flatten([i \in 1..Len(val) |->
               IF val[i] \in {34, 92} THEN <<92, val[i]>> ELSE <<val[i]>>])
InQuotes(val) == <<34>> \o Escaped(val) \o <<34>>

\* Some param of the challenge has an attribute equal to realm, whatever the
\* case of its letters.
NamesRealm(c) ==
    \E j \in 1..Len(c.Params) :
        /\ Len(c.Params[j].Attribute) = 5
        /\ \A k \in 1..5 :
             c.Params[j].Attribute[k] \in {StrRealm[k], StrRealm[k] - 32}

\* The params a parse of the formatted challenge is to give: the realm param
\* in front where the challenge has params but none names the realm.
WithRealm(c, defaultRealm) ==
    IF Len(c.Params) = 0 \/ NamesRealm(c) THEN c.Params
    ELSE <<Param(StrRealm, defaultRealm)>> \o c.Params

\* C2: for every challenge sequence accepted by NewWWWAuthenticateError and
\* every defaultRealm accepted by ValidateFormattableAsQuotedPair, parsing
\* the string HeaderValue(defaultRealm) returns succeeds and yields the same
\* challenges in the same order, each with the same scheme, Token68 and
\* params (values byte for byte), a realm param added in front where the
\* challenge had params but no realm.
C2_RoundTrip ==
    (Ended /\ w.err = NoErr /\ hvOut.err = NoErr) =>
        /\ result.status = "ok"
        /\ result.challenges =
             [i \in 1..Len(w.challenges) |->
                Challenge(w.challenges[i].Scheme,
                          WithRealm(w.challenges[i], input.realm),
                          w.challenges[i].Token68)]

\* C3: a param whose value holds a control character other than tab is
\* never serialized: NewWWWAuthenticateError returns an error for it, so for
\* every WWWAuthenticateError that exists every WriteQuotedPair call of
\* HeaderValue succeeds and the header value is completely written.
C3_ControlCharactersRejected ==
    w.err = NoErr =>
        /\ \A i \in 1..Len(w.challenges) :
             \A j \in 1..Len(w.challenges[i].Params) :
                ~HasControl(w.challenges[i].Params[j].Value)
        /\ hvOut.err = NoErr =>
             \A i \in 1..Len(w.challenges) :
                \A j \in 1..Len(w.challenges[i].Params) :
                   Contains(hvOut.value, InQuotes(w.challenges[i].Params[j].Value))

\* What HeaderValue is to write for one param, the value as WriteQuotedPair
\* writes it, and for one challenge.
RECURSIVE Joined(_)
Joined(texts) ==
    IF Len(texts) = 0 THEN << >>
    ELSE IF Len(texts) = 1 THEN texts[1]
    ELSE texts[1] \o <<44>> \o Joined(Tail(texts))

ParamText(param) ==
    param.Attribute \o <<61>> \o WriteQuotedPair(<< >>, param.Value).sb

ChallengeText(c, defaultRealm) ==
    c.Scheme \o <<32>> \o
    ( IF c.Token68 # << >> THEN c.Token68
      ELSE Joined( (IF NamesRealm(c) THEN << >>
                    ELSE << StrRealm \o <<61>> \o InQuotes(defaultRealm) >>)
                   \o [j \in 1..Len(c.Params) |-> ParamText(c.Params[j])] ) )

\* C9: HeaderValue writes the challenges in order separated by commas; for a
\* challenge without Token68 it writes realm= and the quoted defaultRealm
\* first (also when defaultRealm is empty) if no param attribute equals
\* realm case-insensitively, and no extra realm otherwise, followed by every
\* supplied param in its original order; a challenge with Token68 is written
\* as scheme, space, Token68 with no realm.
C9_HeaderValueLayout ==
    (w.err = NoErr /\ hvOut.err = NoErr) =>
        hvOut.value =
            Joined([i \in 1..Len(w.challenges) |->
                      ChallengeText(w.challenges[i], input.realm)])

\* C9's case: two challenges have been written with an empty defaultRealm,
\* one with two params of which the second names the realm in mixed case,
\* the other with a param and no realm, so that a realm was added to it.
C9_Witness ==
    /\ w.err = NoErr
    /\ hvOut.err = NoErr
    /\ input.realm = << >>
    /\ Len(w.challenges) = 2
    /\ \E i \in 1..2 :
          /\ Len(w.challenges[i].Params) = 2
          /\ w.challenges[i].Params[2].Attribute # StrRealm
          /\ NamesRealm([w.challenges[i] EXCEPT !.Params = <<@[2]>>])
    /\ \E i \in 1..2 :
          /\ Len(w.challenges[i].Params) = 1
          /\ ~NamesRealm(w.challenges[i])

\* The challenges with every scheme spelled Bearer.
SpelledBearer(chs) == [i \in 1..Len(chs) |-> [chs[i] EXCEPT !.Scheme = StrBearer]]

\* s is "Bearer" in some mix of upper and lower case.
IsBearerAnyCase(s) ==
    /\ Len(s) = 6
    /\ \A k \in 1..6 :
         s[k] \in {ToLower(StrBearer)[k], ToLower(StrBearer)[k] - 32}

\* C10: ValidateBearerChallenge accepts a challenge's scheme if and only if
\* it equals "Bearer" case-insensitively: a challenge with scheme bearer or
\* BEARER that is otherwise valid (valid with its scheme spelled Bearer)
\* passes validation, and one with another scheme does not.
C10_SchemeCaseInsensitive ==
    (w.err = NoErr /\ bearerErr # "none") =>
        ( bearerErr = NoErr <=>
            /\ \A i \in 1..Len(w.challenges) : IsBearerAnyCase(w.challenges[i].Scheme)
            /\ ValidateBearerChallenge(SpelledBearer(w.challenges)) = NoErr )

\* C7: for every value without an ASCII control character other than tab,
\* WriteQuotedPair writes the value in double quotes with every double quote
\* and backslash preceded by a backslash and nothing else changed, and
\* parsing attr= followed by that output as an auth-param yields a Param
\* whose Value is the original value byte for byte.
C7_QuotingRoundTrip ==
    (input.kind = "quote" /\ ~HasControl(input.value)) =>
        /\ pc # "quote" =>
             /\ quoted.err = NoErr
             /\ quoted.sb = InQuotes(input.value)
        /\ pc = "done" =>
             /\ apOut.err = NoErr
             /\ apOut.arg = Param(StrAttr, input.value)
             /\ p = [pos |-> Len(headerValue), b |-> EOF]

\* C7's case: a value with a double quote, a backslash and a tab has been
\* written and parsed back.
C7_Witness ==
    /\ pc = "done"
    /\ input.kind = "quote"
    /\ apOut.err = NoErr
    /\ \A c \in {34, 92, 9} : \E i \in 1..Len(input.value) : input.value[i] = c

\* C8: WriteQuotedPair returns an error if and only if the value holds an
\* octet in 0x00-0x1F other than 0x09, or the octet 0x7F, and
\* ValidateFormattableAsQuotedPair returns an error for exactly the same
\* values.
C8_ErrorIffControl ==
    (input.kind = "quote" /\ pc # "quote") =>
        /\ quoted.err # NoErr <=> HasControl(input.value)
        /\ quoted.validateErr # NoErr <=> HasControl(input.value)

\* C8's case: a value whose only control character is 0x7F, after a tab, has
\* been refused by both.
C8_Witness ==
    /\ input.kind = "quote"
    /\ input.value = <<9, 127>>
    /\ quoted.err # NoErr
    /\ quoted.validateErr # NoErr


\* attribute is name in some mix of upper and lower case (name is lower case).
IsAnyCaseOf(attribute, name) ==
    /\ Len(attribute) = Len(name)
    /\ \A k \in 1..Len(name) :
         \/ attribute[k] = name[k]
         \/ name[k] \in 97..122 /\ attribute[k] = name[k] - 32

\* More than one param names the realm in any case, or more than one param
\* has exactly the attribute scope, error, error_description or error_uri.
TooManyOfOne(params) ==
    \/ Cardinality({j \in 1..Len(params) : IsAnyCaseOf(params[j].Attribute, StrRealm)}) > 1
    \/ \E name \in {StrScope, StrError, StrErrorDescription, StrErrorURI} :
          Cardinality({j \in 1..Len(params) : params[j].Attribute = name}) > 1

\* C11: ValidateBearerChallenge returns an error for every challenge with
\* more than one realm param (attribute compared case-insensitively) or more
\* than one param whose attribute is exactly scope, error, error_description
\* or error_uri; a param that differs from these four names in letter case
\* is not counted, so a challenge spelled Bearer whose values pass is
\* rejected exactly when one of these counts exceeds one.
C11_AtMostOneOfEach ==
    (w.err = NoErr /\ bearerErr # "none") =>
        /\ (\E i \in 1..Len(w.challenges) : TooManyOfOne(w.challenges[i].Params))
              => bearerErr # NoErr
        /\ ( \A i \in 1..Len(w.challenges) :
                /\ w.challenges[i].Scheme = StrBearer
                /\ BearerParamsErr(w.challenges[i].Params, 1) = NoErr )
              => ( bearerErr # NoErr
                     <=> \E i \in 1..Len(w.challenges) :
                            TooManyOfOne(w.challenges[i].Params) )

\* C11's case: Bearer realm="r",REALM="r" has been validated and rejected.
C11_Witness ==
    /\ w.err = NoErr
    /\ Len(w.challenges) = 1
    /\ w.challenges[1].Scheme = StrBearer
    /\ Len(w.challenges[1].Params) = 2
    /\ w.challenges[1].Params[1].Attribute = StrRealm
    /\ w.challenges[1].Params[2].Attribute = <<82, 69, 65, 76, 77>>
    /\ bearerErr \notin {"none", NoErr}

\* An octet that is not a visible ASCII character: outside 0x21-0x7E.
NonVisible(c) == c < 33 \/ c > 126

\* The pieces of val between its single spaces.
RECURSIVE PiecesOf(_)
PiecesOf(val) ==
    IF \A i \in 1..Len(val) : val[i] # 32 THEN <<val>>
    ELSE LET i == CHOOSE i \in 1..Len(val) :
                      val[i] = 32 /\ \A k \in 1..(i - 1) : val[k] # 32
         IN  <<SubSeq(val, 1, i - 1)>> \o PiecesOf(SubSeq(val, i + 1, Len(val)))

\* val is not a space-separated list of non-empty scope tokens: a piece is
\* empty or holds a double quote, a backslash or a non-visible character.
BadScope(val) ==
    \E k \in 1..Len(PiecesOf(val)) :
        LET piece == PiecesOf(val)[k] IN
        \/ Len(piece) = 0
        \/ \E i \in 1..Len(piece) : piece[i] \in {34, 92} \/ NonVisible(piece[i])

\* Some param of some challenge has exactly this attribute and a value
\* that Bad rejects.
HasParamWith(chs, attribute, Bad(_)) ==
    \E i \in 1..Len(chs) : \E j \in 1..Len(chs[i].Params) :
        /\ chs[i].Params[j].Attribute = attribute
        /\ Bad(chs[i].Params[j].Value)

\* C12: ValidateBearerChallenge returns an error for every challenge with a
\* scope param whose value, split on single spaces, has an empty element or
\* an element with a double quote, a backslash or a non-visible ASCII
\* character.
C12_ScopeValueRejected ==
    (w.err = NoErr /\ bearerErr # "none") =>
        (HasParamWith(w.challenges, StrScope, BadScope) => bearerErr # NoErr)

\* val holds a double quote or a backslash.
HasQuoteOrBackslash(val) == \E i \in 1..Len(val) : val[i] \in {34, 92}

\* val holds a double quote, a backslash or a space.
HasQuoteBackslashOrSpace(val) == \E i \in 1..Len(val) : val[i] \in {34, 92, 32}

\* C13: ValidateBearerChallenge returns an error for every challenge with an
\* error or error_description param whose value holds a double quote or a
\* backslash anywhere, and for every challenge with an error_uri param whose
\* value holds a double quote, a backslash or a space anywhere.
C13_ErrorValuesRejected ==
    (w.err = NoErr /\ bearerErr # "none") =>
        ( ( \/ HasParamWith(w.challenges, StrError, HasQuoteOrBackslash)
            \/ HasParamWith(w.challenges, StrErrorDescription, HasQuoteOrBackslash)
            \/ HasParamWith(w.challenges, StrErrorURI, HasQuoteBackslashOrSpace) )
          => bearerErr # NoErr )

-----------------------------------------------------------------------------
(* The Bearer authorizer: NewBearerAuthorizer, bearerAuthorizer.Authorize, *)
(* bearerWWWAuthenticateResponse, bearerWWWAuthenticateResponseCommon,     *)
(* internalServerError and ErrorInvalidBearerToken.                        *)
(*   pc = "newAuthorizer"         about to call NewBearerAuthorizer        *)
(*        "authorize"             about to call b.Authorize(w, req)        *)
(*        "bearerTokenAuthorizer" inside b.bearerTokenAuthorizer(token)    *)
(*        "authorized"            b.bearerTokenAuthorizer returned         *)
(*        "invalidToken"          about to call ErrorInvalidBearerToken    *)
(* A response is [status, wwwAuthenticate]: the status code http.Error     *)
(* wrote and the WWW-Authenticate header values added before it.  A nil    *)
(* w.challenges is the empty sequence: NewWWWAuthenticateError never       *)
(* returns a w without challenges.                                         *)

StatusUnauthorized == 401
StatusInternalServerError == 500

\* "invalid_token"
StrInvalidToken == <<105, 110, 118, 97, 108, 105, 100, 95, 116, 111, 107, 101, 110>>
\* The format of the error of line 59 up to its %d, from "header named" on:
\* "header named Authorization, but got ".  The words before it,
\* "request must have exactly one ", are letters and spaces like these.
StrMultipleHeaders ==
    <<104, 101, 97, 100, 101, 114, 32, 110, 97, 109, 101, 100, 32, 65, 117,
    116, 104, 111, 114, 105, 122, 97, 116, 105, 111, 110, 44, 32, 98, 117,
    116, 32, 103, 111, 116, 32>>

\* fmt's %d for a natural number.
RECURSIVE Itoa(_)
Itoa(n) == IF n < 10 THEN <<48 + n>> ELSE Append(Itoa(n \div 10), 48 + (n % 10))

\* strings.IndexByte(s, c), 0-based; -1 when c is not in s.
IndexByte(s, c) ==
    IF \E i \in 1..Len(s) : s[i] = c
    THEN (CHOOSE i \in 1..Len(s) : s[i] = c /\ \A k \in 1..(i - 1) : s[k] # c) - 1
    ELSE -1

\* strings.TrimLeft(s, " ")
RECURSIVE TrimLeftSpace(_)
TrimLeftSpace(s) == IF Len(s) > 0 /\ Head(s) = SP THEN TrimLeftSpace(Tail(s)) ELSE s

\* internalServerError that writes nothing.
internalServerErrorSilent(written) == written

\* internalServerError(w): http.Error with status 500.
internalServerError(written) ==
    Append(written, [status |-> StatusInternalServerError, wwwAuthenticate |-> << >>])

\* ValidateBearerChallenge(w) with its nil test of w.challenges (lines 137-139).
ValidateBearerChallengeW(ww) ==
    IF ww.challenges = << >> THEN "w must be created through NewWWWAuthenticateError"
    ELSE ValidateBearerChallenge(ww.challenges)

\* bearerWWWAuthenticateResponseCommon: the responses written after it, and
\* what its calls returned.
bearerWWWAuthenticateResponseCommon(written, ww, defaultRealm) ==
    LET e == ValidateBearerChallengeW(ww) IN
    IF e # NoErr
    THEN [resp |-> internalServerError(written), w |-> ww, bearerErr |-> e, hvOut |-> NoHvOut]
    ELSE LET hv == HeaderValue(ww.challenges, defaultRealm) IN
         IF hv.err # NoErr
         THEN [resp |-> internalServerError(written), w |-> ww, bearerErr |-> e,
               hvOut |-> hv]
         ELSE [resp |-> Append(written, [status |-> StatusUnauthorized,
                                         wwwAuthenticate |-> <<hv.value>>]),
               w |-> ww, bearerErr |-> e, hvOut |-> hv]

\* bearerWWWAuthenticateResponse(w, body, params...)
bearerWWWAuthenticateResponse(written, params) ==
    LET ww == NewWWWAuthenticateError(<<Challenge(StrBearer, params, EmptyString)>>) IN
    IF ww.err # NoErr
    THEN [resp |-> internalServerError(written), w |-> ww, bearerErr |-> "none",
          hvOut |-> NoHvOut]
    ELSE bearerWWWAuthenticateResponseCommon(written, ww, EmptyString)

\* Authorize, lines 53-84: the params of the challenge the request is
\* answered with, or the bearer token the authorizer is to be called with.
AuthorizeHeaders(headers, realm) ==
    IF Len(headers) = 0
    THEN [call |-> FALSE, params |-> <<Param(StrRealm, realm)>>, token |-> EmptyString]
    ELSE IF Len(headers) > 1
    THEN [call |-> FALSE,
          params |-> <<Param(StrRealm, realm),
                       Param(StrErrorDescription,
                             StrMultipleHeaders \o Itoa(Len(headers)))>>,
          token |-> EmptyString]
    ELSE LET authorizationHeaderValue == headers[1]
             i == IndexByte(authorizationHeaderValue, SP)
         IN  IF i < 0
             THEN [call |-> FALSE, params |-> <<Param(StrRealm, realm)>>,
                   token |-> EmptyString]
             ELSE IF ToLower(SubSeq(authorizationHeaderValue, 1, i)) # ToLower(StrBearer)
             THEN [call |-> FALSE, params |-> <<Param(StrRealm, realm)>>,
                   token |-> EmptyString]
             ELSE [call |-> TRUE, params |-> << >>,
                   token |-> TrimLeftSpace(SubSeq(authorizationHeaderValue, i + 2,
                                                  Len(authorizationHeaderValue)))]

\* regexpCleanRFC26750ErrorDescription matches the octet c.  The Go literal
\* "[\\x00-\\x1F\x22\x5C\\x7F]" is the pattern [\x00-\x1F"\\x7F]: \x5C is a
\* backslash already in the Go string, so the pattern holds \\ (a backslash)
\* followed by the letters x, 7 and F.
regexpCleanRFC26750ErrorDescription(c) == c \in 0..31 \/ c \in {DQUOTE, BACKSLASH, 120, 55, 70}

\* regexpCleanRFC26750ErrorDescription.ReplaceAllString(error, "")
RECURSIVE ReplaceAllString(_)
ReplaceAllString(error) ==
    IF Len(error) = 0 THEN EmptyString
    ELSE IF regexpCleanRFC26750ErrorDescription(Head(error))
    THEN ReplaceAllString(Tail(error))
    ELSE <<Head(error)>> \o ReplaceAllString(Tail(error))

\* ErrorInvalidBearerToken: the w it returns; it panics on an error of
\* NewWWWAuthenticateError.
ErrorInvalidBearerToken(error) ==
    LET errorCleaned == ReplaceAllString(error)
        ww == NewWWWAuthenticateError(
                <<Challenge(StrBearer,
                            <<Param(StrError, StrInvalidToken),
                              Param(StrErrorDescription, errorCleaned)>>,
                            EmptyString)>>)
    IN  [w |-> ww, panic |-> ww.err # NoErr]

\* b, err := NewBearerAuthorizer(realm, bearerTokenAuthorizer)
NewBearerAuthorizer ==
    /\ pc = "newAuthorizer"
    /\ IF ValidateFormattableAsQuotedPair(input.realm) # NoErr
       THEN b' = [realm |-> EmptyString, err |-> "invalid realm"] /\ pc' = "done"
       ELSE IF input.authorizer.kind = "nil function"
       THEN /\ b' = [realm |-> EmptyString, err |-> "bearerTokenAuthorizer must not be nil"]
            /\ pc' = "done"
       ELSE b' = [realm |-> input.realm, err |-> NoErr] /\ pc' = "authorize"
    /\ UNCHANGED <<input, headerValue, p, site, wPosStart, challenges, wHTC, wErr,
                   challenge1, cHTC, ret, result, w, hvOut, bearerErr, quoted, apOut>>
    /\ UNCHANGED <<resp, tokenCalls, tokenOut, authRet, cacheVars, parallelVars, rangeVars, verifyVars>>

\* b.Authorize(w, req), lines 53-85: up to the call of the token authorizer.
Authorize ==
    /\ pc = "authorize"
    /\ LET h == AuthorizeHeaders(input.headers, b.realm) IN
       IF h.call
       THEN /\ tokenCalls' = Append(tokenCalls, h.token)
            /\ pc' = "bearerTokenAuthorizer"
            /\ UNCHANGED <<resp, authRet, w, bearerErr, hvOut>>
       ELSE LET r == bearerWWWAuthenticateResponse(resp, h.params) IN
            /\ resp' = r.resp
            /\ w' = r.w
            /\ bearerErr' = r.bearerErr
            /\ hvOut' = r.hvOut
            /\ authRet' = "nil"
            /\ pc' = "done"
            /\ UNCHANGED tokenCalls
    /\ UNCHANGED <<input, headerValue, p, site, wPosStart, challenges, wHTC, wErr,
                   challenge1, cHTC, ret, result, quoted, apOut>>
    /\ UNCHANGED <<b, tokenOut, cacheVars, parallelVars, rangeVars, verifyVars>>

\* What the supplied BearerTokenAuthorizer does: it returns data, nothing,
\* an error (with or without data), a *WWWAuthenticateError (one that
\* NewWWWAuthenticateError or ErrorInvalidBearerToken returned, the zero
\* value, or a nil pointer), or it panics.
BearerTokenAuthorizerReturns ==
    /\ pc = "bearerTokenAuthorizer"
    /\ LET a == input.authorizer
           made == IF a.kind = "invalid token" THEN ErrorInvalidBearerToken(a.error).w
                   ELSE NewWWWAuthenticateError(a.challenges)
       IN  CASE a.kind = "data" ->
                  tokenOut' = [data |-> "data", err |-> NoErr, w |-> NoW] /\ pc' = "authorized"
             [] a.kind = "nil" ->
                  tokenOut' = [data |-> "nil", err |-> NoErr, w |-> NoW] /\ pc' = "authorized"
             [] a.kind = "error" ->
                  tokenOut' = [data |-> "nil", err |-> "error", w |-> NoW] /\ pc' = "authorized"
             [] a.kind = "error and data" ->
                  tokenOut' = [data |-> "data", err |-> "error", w |-> NoW] /\ pc' = "authorized"
             [] a.kind \in {"challenges", "invalid token"} ->
                  /\ tokenOut' = IF made.err = NoErr
                                 THEN [data |-> "nil", err |-> "*WWWAuthenticateError", w |-> made]
                                 ELSE [data |-> "nil", err |-> "error", w |-> NoW]
                  /\ pc' = "authorized"
             [] a.kind = "zero value" ->
                  /\ tokenOut' = [data |-> "nil", err |-> "*WWWAuthenticateError",
                                  w |-> [challenges |-> << >>, err |-> NoErr]]
                  /\ pc' = "authorized"
             [] a.kind = "nil pointer" ->
                  /\ tokenOut' = [data |-> "nil", err |-> "nil *WWWAuthenticateError", w |-> NoW]
                  /\ pc' = "authorized"
             [] a.kind = "panic" ->
                  tokenOut' = tokenOut /\ pc' = "panic"
    /\ UNCHANGED <<input, headerValue, p, site, wPosStart, challenges, wHTC, wErr,
                   challenge1, cHTC, ret, result, w, hvOut, bearerErr, quoted, apOut>>
    /\ UNCHANGED <<b, resp, tokenCalls, authRet, cacheVars, parallelVars, rangeVars, verifyVars>>

\* b.Authorize(w, req), lines 86-100.  ValidateBearerChallenge reads
\* w.challenges of a nil pointer: a nil pointer dereference.
AuthorizeReturn ==
    /\ pc = "authorized"
    /\ IF tokenOut.err = "*WWWAuthenticateError"
       THEN LET r == bearerWWWAuthenticateResponseCommon(resp, tokenOut.w, b.realm) IN
            /\ resp' = r.resp
            /\ w' = r.w
            /\ bearerErr' = r.bearerErr
            /\ hvOut' = r.hvOut
            /\ authRet' = "nil"
            /\ pc' = "done"
       ELSE IF tokenOut.err = "nil *WWWAuthenticateError"
       THEN pc' = "panic" /\ UNCHANGED <<resp, w, bearerErr, hvOut, authRet>>
       ELSE IF tokenOut.err # NoErr \/ tokenOut.data = "nil"
       THEN /\ resp' = internalServerError(resp)
            /\ authRet' = "nil"
            /\ pc' = "done"
            /\ UNCHANGED <<w, bearerErr, hvOut>>
       ELSE /\ authRet' = tokenOut.data
            /\ pc' = "done"
            /\ UNCHANGED <<resp, w, bearerErr, hvOut>>
    /\ UNCHANGED <<input, headerValue, p, site, wPosStart, challenges, wHTC, wErr,
                   challenge1, cHTC, ret, result, quoted, apOut>>
    /\ UNCHANGED <<b, tokenCalls, tokenOut, cacheVars, parallelVars, rangeVars, verifyVars>>

\* w := ErrorInvalidBearerToken(error)
ErrorInvalidToken ==
    /\ pc = "invalidToken"
    /\ LET r == ErrorInvalidBearerToken(input.error) IN
       /\ w' = r.w
       /\ pc' = IF r.panic THEN "panic" ELSE "constructed"
    /\ UNCHANGED <<input, headerValue, p, site, wPosStart, challenges, wHTC, wErr,
                   challenge1, cHTC, ret, result, hvOut, bearerErr, quoted, apOut>>
    /\ UNCHANGED notHttpVars

(* Requests and token authorizers for Authorize: at most MaxAuthHeaders    *)
(* Authorization headers, a realm, and one behaviour of the supplied       *)
(* BearerTokenAuthorizer.                                                  *)
MaxAuthHeaders == 2
\* "Bearer t"  "bearer  t"  "BEARER "  "Basic t"  "Bearer"  " t"
AuthHeaderValues ==
    { <<66, 101, 97, 114, 101, 114, 32, 116>>,
      <<98, 101, 97, 114, 101, 114, 32, 32, 116>>,
      <<66, 69, 65, 82, 69, 82, 32>>,
      <<66, 97, 115, 105, 99, 32, 116>>,
      <<66, 101, 97, 114, 101, 114>>,
      <<32, 116>> }

AuthorizerOf(kind, chs, error) == [kind |-> kind, challenges |-> chs, error |-> error]

\* Bearer error="x"   Basic realm="r"   Bearer realm="r",realm="r"
\* Bearer error_description="b<0x01>c"   bearer realm="r"
AuthorizerChallenges ==
    { <<Challenge(StrBearer, <<Param(StrError, <<120>>)>>, EmptyString)>>,
      <<Challenge(<<66, 97, 115, 105, 99>>, <<Param(StrRealm, <<114>>)>>, EmptyString)>>,
      <<Challenge(StrBearer, <<Param(StrRealm, <<114>>), Param(StrRealm, <<114>>)>>,
                  EmptyString)>>,
      <<Challenge(StrBearer, <<Param(StrErrorDescription, <<98, 1, 99>>)>>, EmptyString)>>,
      <<Challenge(ToLower(StrBearer), <<Param(StrRealm, <<114>>)>>, EmptyString)>>,
      << >> }

\* The messages given to ErrorInvalidBearerToken: a, "a, a<0x7F>
AuthorizerErrors == { <<97>>, <<DQUOTE, 97>>, <<97, DEL>> }

Authorizers ==
    {AuthorizerOf(kind, << >>, EmptyString) :
        kind \in {"nil function", "data", "nil", "error", "error and data",
                  "zero value", "nil pointer", "panic"}}
    \cup {AuthorizerOf("challenges", chs, EmptyString) : chs \in AuthorizerChallenges}
    \cup {AuthorizerOf("invalid token", << >>, error) : error \in AuthorizerErrors}

InitAuthorize ==
    \E realm \in FormatRealms :
        \E headers \in SeqsUpTo(AuthHeaderValues, MaxAuthHeaders) :
            \E authorizer \in Authorizers :
                Start([NoInput EXCEPT !.kind = "authorize", !.realm = realm,
                                      !.headers = headers, !.authorizer = authorizer],
                      EmptyString, "newAuthorizer")

\* NewBearerAuthorizer, then Authorize on one request.
NextAuthorize ==
    \/ NewBearerAuthorizer
    \/ Authorize
    \/ BearerTokenAuthorizerReturns
    \/ AuthorizeReturn
SpecAuthorize == InitAuthorize /\ [][NextAuthorize]_vars

(* Messages for ErrorInvalidBearerToken: every octet string over           *)
(* ErrorOctets of length at most MaxErrorLen, and a valid default realm.   *)
MaxErrorLen == 2
ErrorOctets == {1, SP, DQUOTE, BACKSLASH, 97, 120, DEL}
ValidRealms == {realm \in FormatRealms : ValidateFormattableAsQuotedPair(realm) = NoErr}

InitInvalidToken ==
    \E error \in SeqsUpTo(ErrorOctets, MaxErrorLen) :
        \E realm \in ValidRealms :
            Start([NoInput EXCEPT !.kind = "invalidToken", !.error = error,
                                  !.realm = realm],
                  EmptyString, "invalidToken")

\* ErrorInvalidBearerToken, then ValidateBearerChallenge or HeaderValue on
\* what it returned.
NextInvalidToken == ErrorInvalidToken \/ ValidateBearer \/ Format
SpecInvalidToken == InitInvalidToken /\ [][NextInvalidToken]_vars

-----------------------------------------------------------------------------
(* Claims about the Bearer authorizer.                                     *)

\* C14: Authorize returns nil if and only if it has written a response:
\* every path that returns nil has written exactly one response, with
\* status 401 or 500, the path that returns data has written nothing, and
\* nothing is written before Authorize returns.
C14_NilIffResponseWritten ==
    /\ Len(resp) <= 1
    /\ \A k \in 1..Len(resp) : resp[k].status \in {401, 500}
    /\ authRet = "nil" <=> Len(resp) = 1
    /\ authRet \notin {"none", "nil"} => resp = << >>

\* C14's case: the token authorizer was called and returned a
\* *WWWAuthenticateError, and Authorize wrote a 401 and returned nil.
C14_Witness ==
    /\ Len(tokenCalls) = 1
    /\ tokenOut.err = "*WWWAuthenticateError"
    /\ authRet = "nil"
    /\ Len(resp) = 1
    /\ resp[1].status = 401

\* The request has no Authorization header, more than one, one without a
\* space, or one whose scheme (the octets before the first space) is not
\* Bearer in any case.
RefusedRequest(headers) ==
    \/ Len(headers) # 1
    \/ \A i \in 1..Len(headers[1]) : headers[1][i] # 32
    \/ LET i == CHOOSE i \in 1..Len(headers[1]) :
                    headers[1][i] = 32 /\ \A k \in 1..(i - 1) : headers[1][k] # 32
       IN  ~IsAnyCaseOf(SubSeq(headers[1], 1, i - 1), ToLower(StrBearer))

\* text starts with prefix.
StartsWith(text, prefix) ==
    Len(text) >= Len(prefix) /\ SubSeq(text, 1, Len(prefix)) = prefix

\* C15: an Authorizer that NewBearerAuthorizer returned answers a request
\* with no Authorization header, more than one, a value without a space or
\* a scheme other than Bearer (case-insensitively) with exactly one
\* response, of status 401 and with one WWW-Authenticate header holding a
\* Bearer challenge with the authorizer's realm; the Internal Server Error
\* fallback is not taken and the BearerTokenAuthorizer is not called.
C15_RefusedRequestGets401 ==
    (b.err = NoErr /\ pc # "authorize" /\ RefusedRequest(input.headers)) =>
        /\ pc = "done"
        /\ authRet = "nil"
        /\ tokenCalls = << >>
        /\ Len(resp) = 1
        /\ resp[1].status = 401
        /\ Len(resp[1].wwwAuthenticate) = 1
        /\ LET challengeText == StrBearer \o <<32>> \o StrRealm \o <<61>>
                                  \o InQuotes(input.realm)
           IN  IF Len(input.headers) > 1
               THEN /\ StartsWith(resp[1].wwwAuthenticate[1],
                                  challengeText \o <<44>> \o StrErrorDescription \o <<61, 34>>)
                    /\ resp[1].wwwAuthenticate[1][Len(resp[1].wwwAuthenticate[1])] = 34
               ELSE resp[1].wwwAuthenticate[1] = challengeText

\* C15's case: a request with two Authorization headers has been answered.
C15_Witness ==
    /\ b.err = NoErr
    /\ Len(input.headers) = 2
    /\ input.realm # << >>
    /\ authRet = "nil"
    /\ Len(resp) = 1
    /\ resp[1].status = 401

\* C16: ErrorInvalidBearerToken is not prone to errors: for every message
\* it returns a *WWWAuthenticateError without panicking, ValidateBearerChallenge
\* returns nil for it, and HeaderValue succeeds for every valid defaultRealm,
\* that is it returns no error and the header value holds the Bearer
\* challenge with the realm, error="invalid_token" and the whole cleaned
\* error_description.
C16_InvalidTokenNotProneToErrors ==
    /\ pc # "panic"
    /\ w # NoW => w.err = NoErr
    /\ bearerErr # "none" => bearerErr = NoErr
    /\ hvOut.err # "none" =>
         /\ hvOut.err = NoErr
         /\ hvOut.value =
              StrBearer \o <<32>> \o
              Joined(<< StrRealm \o <<61>> \o InQuotes(input.realm),
                        StrError \o <<61>> \o InQuotes(StrInvalidToken),
                        StrErrorDescription \o <<61>>
                          \o InQuotes(w.challenges[1].Params[2].Value) >>)

-----------------------------------------------------------------------------
(* Package cache: cachedEvaluator.  Every caller goroutine makes one call, *)
(* Get or Evaluate, with its own context, which can be cancelled at any    *)
(* time.  An operation is                                                  *)
(*   [cancelled, err, refs, value, closed, g, panicked]                    *)
(* cancelled: o.cancelFunc was called; closed: o.waitChannel is closed;    *)
(* g: where the goroutine of evaluateLockedSection (lines 94-116) is:      *)
(*   "evaluator" inside c.evaluator(ctx)      "returned" before line 110   *)
(*   "recover"   in the deferred function     "lock"     before c.mutex.Lock *)
(*   "locked"    holding c.mutex              "done"                       *)
(* A value is 0 for nil, or the number of the operation that computed it.  *)
(* c.mutex is 0 when free, k when caller k holds it, -o when the goroutine *)
(* of operation o holds it.                                                *)

NumCallers == 2
Callers == 1..NumCallers

\* Every call creates at most one operation.
Operations == 1..NumCallers

\* A goroutine that has not called yet; ctxDone: its context is cancelled.
Caller == [pc |-> "idle", o |-> 0, ctxDone |-> FALSE, value |-> 0, err |-> "none"]

\* evaluateLockedSection, line 85, with the test left out: never join.
HasOperationNever(operation) == FALSE

\* evaluateLockedSection, line 85: c.operation != nil
HasOperation(operation) == operation # 0

\* evaluateLockedSection, lines 88-93: the operation a new evaluation gets.
NewOperation ==
    [cancelled |-> FALSE, err |-> NoErr, refs |-> 0, value |-> 0, closed |-> FALSE,
     g |-> "evaluator", panicked |-> FALSE]

\* The variables no action of package cache touches.
notCacheVars == <<httpVars, authVars, parallelVars, rangeVars, verifyVars>>

\* Get, lines 122-126: a cached value is returned, else Evaluate is called.
Get(k) ==
    /\ ~crashed
    /\ UNCHANGED notCacheVars
    /\ callers[k].pc = "idle"
    /\ callers' = [callers EXCEPT ![k] =
                     IF cache.value # 0
                     THEN [@ EXCEPT !.pc = "returned", !.value = cache.value, !.err = NoErr]
                     ELSE [@ EXCEPT !.pc = "lock"]]
    /\ UNCHANGED <<cache, ops, crashed>>

\* Evaluate is called.
Evaluate(k) ==
    /\ ~crashed
    /\ UNCHANGED notCacheVars
    /\ callers[k].pc = "idle"
    /\ callers' = [callers EXCEPT ![k].pc = "lock"]
    /\ UNCHANGED <<cache, ops, crashed>>

\* evaluateLockedSection, line 83: c.mutex.Lock()
Lock(k) ==
    /\ ~crashed
    /\ UNCHANGED notCacheVars
    /\ callers[k].pc = "lock"
    /\ cache.mutex = 0
    /\ cache' = [cache EXCEPT !.mutex = k]
    /\ callers' = [callers EXCEPT ![k].pc = "locked"]
    /\ UNCHANGED <<ops, crashed>>

\* evaluateLockedSection, lines 85-118, and the deferred c.mutex.Unlock().
evaluateLockedSection(k) ==
    /\ ~crashed
    /\ UNCHANGED notCacheVars
    /\ callers[k].pc = "locked"
    /\ IF HasOperation(cache.operation)
       THEN /\ callers' = [callers EXCEPT ![k].pc = "addRef", ![k].o = cache.operation]
            /\ cache' = [cache EXCEPT !.mutex = 0]
            /\ UNCHANGED ops
       ELSE /\ ops' = Append(ops, NewOperation)
            /\ callers' = [callers EXCEPT ![k].pc = "addRef", ![k].o = Len(ops) + 1]
            /\ cache' = [cache EXCEPT !.mutex = 0, !.operation = Len(ops) + 1]
    /\ UNCHANGED crashed

\* o.addRef()
addRef(k) ==
    /\ ~crashed
    /\ UNCHANGED notCacheVars
    /\ callers[k].pc = "addRef"
    /\ ops' = [ops EXCEPT ![callers[k].o].refs = @ + 1]
    /\ callers' = [callers EXCEPT ![k].pc = "select"]
    /\ UNCHANGED <<cache, crashed>>

\* Evaluate, lines 136-139: case <-ctx.Done()
SelectDone(k) ==
    /\ ~crashed
    /\ UNCHANGED notCacheVars
    /\ callers[k].pc = "select"
    /\ callers[k].ctxDone
    /\ callers' = [callers EXCEPT ![k].pc = "removeRef", ![k].value = 0,
                                  ![k].err = "context canceled"]
    /\ UNCHANGED <<cache, ops, crashed>>

\* Evaluate, lines 140-142: case <-o.waitChannel
SelectWaitChannel(k) ==
    /\ ~crashed
    /\ UNCHANGED notCacheVars
    /\ callers[k].pc = "select"
    /\ ops[callers[k].o].closed
    /\ callers' = [callers EXCEPT ![k].pc = "removeRef",
                                  ![k].value = ops[callers[k].o].value,
                                  ![k].err = ops[callers[k].o].err]
    /\ UNCHANGED <<cache, ops, crashed>>

\* o.removeRef(), line 63: atomic.AddInt64(&o.refs, -1) == 0
removeRef(k) ==
    /\ ~crashed
    /\ UNCHANGED notCacheVars
    /\ callers[k].pc = "removeRef"
    /\ ops' = [ops EXCEPT ![callers[k].o].refs = @ - 1]
    /\ callers' = [callers EXCEPT ![k].pc =
                     IF ops[callers[k].o].refs - 1 = 0 THEN "cancelFunc" ELSE "returned"]
    /\ UNCHANGED <<cache, crashed>>

\* o.removeRef(), line 64: o.cancelFunc()
cancelFunc(k) ==
    /\ ~crashed
    /\ UNCHANGED notCacheVars
    /\ callers[k].pc = "cancelFunc"
    /\ ops' = [ops EXCEPT ![callers[k].o].cancelled = TRUE]
    /\ callers' = [callers EXCEPT ![k].pc = "returned"]
    /\ UNCHANGED <<cache, crashed>>

\* The context of caller k is cancelled.  Evaluate reads ctx in its select
\* only, so a cancellation at any earlier time is this step taken when the
\* caller has reached the select.
CancelContext(k) ==
    /\ ~crashed
    /\ UNCHANGED notCacheVars
    /\ ~callers[k].ctxDone
    /\ callers[k].pc = "select"
    /\ callers' = [callers EXCEPT ![k].ctxDone = TRUE]
    /\ UNCHANGED <<cache, ops, crashed>>

\* Line 109: c.evaluator(ctx) returns a value, or a nil value with an
\* error; the error can be ctx.Err() once ctx is cancelled.
EvaluatorReturns(o) ==
    /\ ~crashed
    /\ o <= Len(ops)
    /\ UNCHANGED notCacheVars
    /\ ops[o].g = "evaluator"
    /\ \E out \in {"value", "error"} \cup
                  (IF ops[o].cancelled THEN {"context canceled"} ELSE {}) :
          ops' = [ops EXCEPT ![o].g = "returned",
                             ![o].value = IF out = "value" THEN o ELSE 0,
                             ![o].err = IF out = "value" THEN NoErr ELSE out]
    /\ UNCHANGED <<cache, callers, crashed>>

\* Line 109: c.evaluator(ctx) panics.
EvaluatorPanics(o) ==
    /\ ~crashed
    /\ o <= Len(ops)
    /\ UNCHANGED notCacheVars
    /\ ops[o].g = "evaluator"
    /\ ops' = [ops EXCEPT ![o].g = "recover", ![o].panicked = TRUE]
    /\ UNCHANGED <<cache, callers, crashed>>

\* Lines 110-111: canRecover = false; close(waitChannel)
CloseWaitChannel(o) ==
    /\ ~crashed
    /\ o <= Len(ops)
    /\ UNCHANGED notCacheVars
    /\ ops[o].g = "returned"
    /\ ops' = [ops EXCEPT ![o].g = "lock", ![o].closed = TRUE]
    /\ UNCHANGED <<cache, callers, crashed>>

\* Lines 97-103: the deferred function recovers the panic.
Recover(o) ==
    /\ ~crashed
    /\ o <= Len(ops)
    /\ UNCHANGED notCacheVars
    /\ ops[o].g = "recover"
    /\ ops' = [ops EXCEPT ![o].g = "lock", ![o].err = "PanicError", ![o].closed = TRUE]
    /\ UNCHANGED <<cache, callers, crashed>>

\* Lines 104 and 112: c.mutex.Lock()
GoroutineLock(o) ==
    /\ ~crashed
    /\ o <= Len(ops)
    /\ UNCHANGED notCacheVars
    /\ ops[o].g = "lock"
    /\ cache.mutex = 0
    /\ cache' = [cache EXCEPT !.mutex = -o]
    /\ ops' = [ops EXCEPT ![o].g = "locked"]
    /\ UNCHANGED <<callers, crashed>>

\* Lines 105-106 and 113-115: c.operation = nil, then after a return of the
\* evaluator c.value.Store(o.value), and the deferred c.mutex.Unlock().
\* atomic.Value.Store panics on a nil value; canRecover is false by then, so
\* nothing recovers the panic and the process dies.
GoroutineFinish(o) ==
    /\ ~crashed
    /\ o <= Len(ops)
    /\ UNCHANGED notCacheVars
    /\ ops[o].g = "locked"
    /\ ops' = [ops EXCEPT ![o].g = "done"]
    /\ IF ops[o].panicked
       THEN cache' = [cache EXCEPT !.mutex = 0, !.operation = 0] /\ UNCHANGED crashed
       ELSE IF ops[o].value = 0
       THEN cache' = [cache EXCEPT !.mutex = 0, !.operation = 0] /\ crashed' = TRUE
       ELSE /\ cache' = [cache EXCEPT !.mutex = 0, !.operation = 0,
                                      !.value = ops[o].value]
            /\ UNCHANGED crashed
    /\ UNCHANGED callers

InitCache ==
    /\ StartHttp([NoInput EXCEPT !.kind = "cache"], EmptyString, "cache")
    /\ ParallelIdle
    /\ RangeIdle
    /\ VerifyIdle
    /\ cache = NewCachedEvaluator
    /\ ops = << >>
    /\ callers = [k \in Callers |-> Caller]
    /\ crashed = FALSE

\* Every interleaving of the callers and the evaluating goroutines, until
\* the process dies.
NextCache ==
    \/ \E k \in Callers :
          \/ Get(k)
          \/ Evaluate(k)
          \/ Lock(k)
          \/ evaluateLockedSection(k)
          \/ addRef(k)
          \/ SelectDone(k)
          \/ SelectWaitChannel(k)
          \/ removeRef(k)
          \/ cancelFunc(k)
          \/ CancelContext(k)
    \/ \E o \in Operations :
          \/ EvaluatorReturns(o)
          \/ EvaluatorPanics(o)
          \/ CloseWaitChannel(o)
          \/ Recover(o)
          \/ GoroutineLock(o)
          \/ GoroutineFinish(o)
SpecCache == InitCache /\ [][NextCache]_vars

-----------------------------------------------------------------------------
(* Claims about package cache.                                             *)

\* The operations whose evaluator call is running.
Evaluating == {o \in 1..Len(ops) : ops[o].g = "evaluator"}

\* C17: at most one invocation of the evaluator is running at any time, and
\* while one is running it is c.operation, so that a caller that arrives
\* takes that operation and waits for it instead of starting another: no
\* caller returns from an operation before its wait channel is closed unless
\* its own context is done.
C17_OneEvaluationAtATime ==
    /\ Cardinality(Evaluating) <= 1
    /\ \A o \in Evaluating : cache.operation = o
    /\ \A k \in Callers :
         (callers[k].pc \in {"removeRef", "cancelFunc", "returned"} /\ callers[k].o # 0)
           => (ops[callers[k].o].closed \/ callers[k].ctxDone)

\* C17's case: both callers are in Evaluate on the one operation whose
\* evaluator is running.
C17_Witness ==
    /\ Len(ops) = 1
    /\ ops[1].g = "evaluator"
    /\ \A k \in 1..2 : callers[k].o = 1 /\ callers[k].pc = "select"

\* C18: a caller whose context is not cancelled never receives the error
\* of an evaluation context that was cancelled because another caller left:
\* the evaluation's context is cancelled only when nobody waits for it.
C18_NoForeignCancellation ==
    \A k \in Callers :
        (~callers[k].ctxDone /\ callers[k].pc \in {"removeRef", "cancelFunc", "returned"})
          => callers[k].err # "context canceled"

-----------------------------------------------------------------------------
(* Package sync: CallInParallelReturnWhenAnyError(ctx, funcSlice...).      *)
(* funcSlice[i] is what function i does: it returns nil, returns an error, *)
(* panics, or waits for ctxCancelable to be cancelled and returns          *)
(* ctx.Err().  An error is [kind, of]: NoError for nil, the error function *)
(* of returned, or a *PanicError whose Data is the panic value of function *)
(* of (of = 0: Data is nil).  A goroutine is [pc, canRecover, err2,        *)
(* panicking] with pc                                                      *)
(*   "f"        inside f(ctxCancelable)     "lock"   before mutex.Lock()   *)
(*   "record"   holding mutex, line 120     "deferred" at the deferred function *)
(*   "recover"  line 102                    "recordPanic" holding mutex, line 107 *)
(* mutex is 0 when free, else the goroutine that holds it.                 *)

NumFuncs == 2
Funcs == 1..NumFuncs

Behaviours == {"nil", "error", "panic", "ctx.Err()"}

ErrorOf(i) == [kind |-> "error", of |-> i]
PanicError(data) == [kind |-> "PanicError", of |-> data]

NoGoroutine == [pc |-> "notStarted", canRecover |-> TRUE, err2 |-> NoError,
                panicking |-> FALSE]

\* The variables no action of CallInParallelReturnWhenAnyError touches.
notParallelVars == <<httpVars, authVars, cacheVars, rangeVars, verifyVars>>

\* Lines 94-125: one iteration of the loop: waitGroup.Add(1); go func() {...}()
Go ==
    /\ main.pc = "loop"
    /\ main.i < Len(funcSlice)
    /\ waitGroup' = waitGroup + 1
    /\ goroutines' = [goroutines EXCEPT ![main.i + 1].pc = "f"]
    /\ main' = [main EXCEPT !.i = @ + 1,
                            !.pc = IF main.i + 1 = Len(funcSlice) THEN "wait" ELSE "loop"]
    /\ UNCHANGED <<funcSlice, errFirst, mutex, ctxCancelable, failed>>
    /\ UNCHANGED notParallelVars

\* Line 126: waitGroup.Wait() returns when the counter is zero.
Wait ==
    /\ main.pc = "wait"
    /\ waitGroup = 0
    /\ main' = [main EXCEPT !.pc = "cancelFunc"]
    /\ UNCHANGED <<funcSlice, goroutines, errFirst, waitGroup, mutex, ctxCancelable, failed>>
    /\ UNCHANGED notParallelVars

\* Lines 130-131: cancelFunc(); return errFirst.  errFirst is read without
\* the mutex.
Return ==
    /\ main.pc = "cancelFunc"
    /\ ctxCancelable' = TRUE
    /\ main' = [main EXCEPT !.pc = "returned", !.ret = errFirst]
    /\ UNCHANGED <<funcSlice, goroutines, errFirst, waitGroup, mutex, failed>>
    /\ UNCHANGED notParallelVars

\* Lines 113-116: f returns nil and the goroutine returns; canRecover is
\* still true.
FReturnsNil(i) ==
    /\ goroutines[i].pc = "f"
    /\ funcSlice[i] = "nil"
    /\ goroutines' = [goroutines EXCEPT ![i].pc = "deferred"]
    /\ UNCHANGED <<funcSlice, errFirst, waitGroup, mutex, ctxCancelable, main, failed>>
    /\ UNCHANGED notParallelVars

\* Lines 113-117: f returns an error; canRecover = false.
FReturnsError(i) ==
    /\ goroutines[i].pc = "f"
    /\ \/ funcSlice[i] = "error"
       \/ funcSlice[i] = "ctx.Err()" /\ ctxCancelable
    /\ goroutines' = [goroutines EXCEPT ![i].pc = "lock", ![i].err2 = ErrorOf(i),
                                        ![i].canRecover = FALSE]
    /\ failed' = Append(failed, i)
    /\ UNCHANGED <<funcSlice, errFirst, waitGroup, mutex, ctxCancelable, main>>
    /\ UNCHANGED notParallelVars

\* Line 113: f panics; the deferred function runs with canRecover true.
FPanics(i) ==
    /\ goroutines[i].pc = "f"
    /\ funcSlice[i] = "panic"
    /\ goroutines' = [goroutines EXCEPT ![i].pc = "deferred", ![i].panicking = TRUE]
    /\ failed' = Append(failed, i)
    /\ UNCHANGED <<funcSlice, errFirst, waitGroup, mutex, ctxCancelable, main>>
    /\ UNCHANGED notParallelVars

\* Line 118: mutex.Lock()
LockError(i) ==
    /\ goroutines[i].pc = "lock"
    /\ mutex = 0
    /\ mutex' = i
    /\ goroutines' = [goroutines EXCEPT ![i].pc = "record"]
    /\ UNCHANGED <<funcSlice, errFirst, waitGroup, ctxCancelable, main, failed>>
    /\ UNCHANGED notParallelVars

\* Lines 120-123 and the deferred mutex.Unlock() of line 119.
RecordError(i) ==
    /\ goroutines[i].pc = "record"
    /\ IF errFirst = NoError
       THEN errFirst' = goroutines[i].err2 /\ ctxCancelable' = TRUE
       ELSE UNCHANGED <<errFirst, ctxCancelable>>
    /\ mutex' = 0
    /\ goroutines' = [goroutines EXCEPT ![i].pc = "deferred"]
    /\ UNCHANGED <<funcSlice, waitGroup, main, failed>>
    /\ UNCHANGED notParallelVars

\* Lines 100-101: waitGroup.Done(), then the test of canRecover.
Done(i) ==
    /\ goroutines[i].pc = "deferred"
    /\ waitGroup' = waitGroup - 1
    /\ goroutines' = [goroutines EXCEPT ![i].pc =
                        IF goroutines[i].canRecover THEN "recover" ELSE "finished"]
    /\ UNCHANGED <<funcSlice, errFirst, mutex, ctxCancelable, main, failed>>
    /\ UNCHANGED notParallelVars

\* Lines 102-105: err2 := &PanicError{Data: recover()}; mutex.Lock().
\* recover() returns nil when the goroutine is not panicking.
RecoverLock(i) ==
    /\ goroutines[i].pc = "recover"
    /\ mutex = 0
    /\ mutex' = i
    /\ goroutines' = [goroutines EXCEPT
                        ![i].pc = "recordPanic",
                        ![i].err2 = PanicError(IF goroutines[i].panicking THEN i ELSE 0),
                        ![i].panicking = FALSE]
    /\ UNCHANGED <<funcSlice, errFirst, waitGroup, ctxCancelable, main, failed>>
    /\ UNCHANGED notParallelVars

\* Lines 107-110 and the deferred mutex.Unlock() of line 106.
RecordPanic(i) ==
    /\ goroutines[i].pc = "recordPanic"
    /\ IF errFirst = NoError
       THEN errFirst' = goroutines[i].err2 /\ ctxCancelable' = TRUE
       ELSE UNCHANGED <<errFirst, ctxCancelable>>
    /\ mutex' = 0
    /\ goroutines' = [goroutines EXCEPT ![i].pc = "finished"]
    /\ UNCHANGED <<funcSlice, waitGroup, main, failed>>
    /\ UNCHANGED notParallelVars

\* Lines 90-93: the call, on every choice of what the functions do.
InitParallel ==
    /\ StartHttp([NoInput EXCEPT !.kind = "parallel"], EmptyString, "parallel")
    /\ CacheIdle
    /\ RangeIdle
    /\ VerifyIdle
    /\ funcSlice \in [Funcs -> Behaviours]
    /\ goroutines = [i \in Funcs |-> NoGoroutine]
    /\ errFirst = NoError
    /\ waitGroup = 0
    /\ mutex = 0
    /\ ctxCancelable = FALSE
    /\ main = [pc |-> "loop", i |-> 0, ret |-> NoError]
    /\ failed = << >>

\* Every interleaving of the calling goroutine and the goroutines of the
\* functions.
NextParallel ==
    \/ Go
    \/ Wait
    \/ Return
    \/ \E i \in Funcs :
          \/ FReturnsNil(i)
          \/ FReturnsError(i)
          \/ FPanics(i)
          \/ LockError(i)
          \/ RecordError(i)
          \/ Done(i)
          \/ RecoverLock(i)
          \/ RecordPanic(i)
SpecParallel == InitParallel /\ [][NextParallel]_vars

-----------------------------------------------------------------------------
(* Claims about CallInParallelReturnWhenAnyError.                          *)

\* C19: CallInParallelReturnWhenAnyError returns nil whenever no function
\* returns an error and no function panics, in particular when every
\* function returns nil.
C19_NilWhenNoFailure ==
    (main.pc = "returned" /\ \A i \in Funcs : funcSlice[i] = "nil") =>
        main.ret = NoError

\* What the failure of function i is to be reported as.
FailureOf(i) == IF funcSlice[i] = "panic" THEN PanicError(i) ELSE ErrorOf(i)

\* C20: when a function returned an error or panicked,
\* CallInParallelReturnWhenAnyError returns after all functions have
\* finished, and returns the error of the function that failed first, a
\* *PanicError with the panic value if it panicked; the context of the
\* other functions is cancelled once a failure is recorded.
C20_FirstFailureReturned ==
    /\ errFirst # NoError => ctxCancelable
    /\ (main.pc = "returned" /\ failed # << >>) =>
         /\ \A i \in Funcs : goroutines[i].pc \notin {"notStarted", "f"}
         /\ main.ret = FailureOf(failed[1])

-----------------------------------------------------------------------------
(* The cursor of the parser.                                               *)

\* The call of p.authParam() that the state is about to make, if any:
\* [q |-> the cursor at the call, a |-> what authParam returns, posStart |->
\* the position the caller saved (line 330), or the position at the call
\* when the caller saved none (line 292)].
AuthParamCalls ==
    IF pc = "challengeL"
    THEN LET q == next(headerValue, p) IN
         IF q.b \in {EOF, SP, COMMA} THEN {}
         ELSE {[q |-> q, a |-> authParam(headerValue, q), posStart |-> q.pos]}
    ELSE IF pc = "challengeParams" /\ ows(headerValue, p).b = COMMA
    THEN LET q1 == next(headerValue, ows(headerValue, p))
             q == ows(headerValue, q1)
         IN  {[q |-> q, a |-> authParam(headerValue, q), posStart |-> q1.pos]}
    ELSE {}

ByteAt(hv, pos) == IF pos = Len(hv) THEN EOF ELSE hv[pos + 1]

\* C24: at every point where a sub-parser reads p.b, also after a restore of
\* p.pos, p.b is the octet of headerValue at index p.pos, or -1 when p.pos is
\* the length of headerValue: at the top of wwwAuthenticate, of challenge, of
\* the second loop of challenge and of the loop of wwwAuthenticate, and when
\* challenge looks p.b up (line 294) after a failed p.authParam().
C24_CursorByteInvariant ==
    /\ pc \in {"wwwAuthenticate", "challenge", "challengeParams", "wwwLoop"} =>
           p.b = ByteAt(headerValue, p.pos)
    /\ \A c \in AuthParamCalls :
           (pc = "challengeL" /\ c.a.err # NoErr) =>
               c.a.q.b = ByteAt(headerValue, c.a.q.pos)

-----------------------------------------------------------------------------
(* p.authParam() on a quoted-string.                                       *)
(*   pc = "parser"    about to build the parser and call p.next()          *)
(*        "authParam" about to call p.authParam()                          *)

\* p := parser{headerValue: headerValue, pos: -1}; p.next()
ParserStart ==
    /\ UNCHANGED notHttpVars
    /\ pc = "parser"
    /\ p' = next(headerValue, NewParser)
    /\ pc' = "authParam"
    /\ UNCHANGED <<input, headerValue, site, wPosStart, challenges, wHTC, wErr,
                   challenge1, cHTC, ret, result, w, hvOut, bearerErr, quoted, apOut>>

(* Quoted-strings: a=" followed by every octet string over QuotedOctets of *)
(* length at most MaxQuotedLen; the first double quote of the string that  *)
(* no backslash precedes, if any, closes the quoted-string.                *)
MaxQuotedLen == 4
QuotedOctets == {1, HTAB, SP, DQUOTE, BACKSLASH, 97, DEL, 128}

InitQuotedString ==
    \E text \in SeqsUpTo(QuotedOctets, MaxQuotedLen) :
        Start([NoInput EXCEPT !.kind = "quoted", !.value = text],
              <<97, EQUALS, DQUOTE>> \o text, "parser")

NextQuotedString == ParserStart \/ ParseQuoted
SpecQuotedString == InitQuotedString /\ [][NextQuotedString]_vars

\* What text, read from index i on as the inside of a quoted-string, runs
\* into first: the closing quote ("closed"), a backslash followed by an
\* octet outside pairOctets ("pair"), an unescaped control
\* character other than tab ("control"), or the end of the input ("end").
RECURSIVE QuotedFate(_, _, _)
QuotedFate(text, i, pairOctets) ==
    IF i > Len(text) THEN "end"
    ELSE IF text[i] = DQUOTE THEN "closed"
    ELSE IF text[i] = BACKSLASH
    THEN IF i + 1 > Len(text) THEN "end"
         ELSE IF text[i + 1] \in pairOctets THEN QuotedFate(text, i + 2, pairOctets)
         ELSE "pair"
    ELSE IF (text[i] < SP /\ text[i] # HTAB) \/ text[i] = DEL THEN "control"
    ELSE QuotedFate(text, i + 1, pairOctets)

\* Horizontal tab, a visible ASCII character, a double quote or a backslash.
TabOrVisible == {HTAB} \cup (33..126)

\* Any octet but an ASCII control character other than tab.
NotControl == (0..255) \ (((0..31) \ {HTAB}) \cup {DEL})

\* The statement of C25 as given: inside a quoted-string the auth-param
\* attempt fails on a backslash followed by an octet that is not horizontal
\* tab, visible ASCII, a double quote or a backslash (so on backslash-space
\* and on a backslash followed by an octet >= 0x80), on an unescaped control
\* character other than tab, and on the end of the input before the closing
\* quote.
C25_QuotedStringFailuresAsStated ==
    (input.kind = "quoted" /\ pc = "done"
        /\ QuotedFate(input.value, 1, TabOrVisible) # "closed") =>
        apOut.err # NoErr

\* C25, amended: inside a quoted-string the auth-param attempt fails on a
\* backslash followed by an ASCII control character other than tab
\* (0x00-0x1F except 0x09, or 0x7F), on an unescaped control character other
\* than tab, and on the end of the input before the closing quote, and in no
\* other case: a backslash followed by a space or by an octet >= 0x80 is a
\* quoted-pair.
C25_QuotedStringFailures ==
    (input.kind = "quoted" /\ pc = "done") =>
        IF QuotedFate(input.value, 1, NotControl) # "closed"
        THEN apOut.err # NoErr
        ELSE apOut.err = NoErr

\* C25's case: a quoted-string with a backslash followed by a control
\* character before its closing quote has been refused.
C25_Witness ==
    /\ input.kind = "quoted"
    /\ pc = "done"
    /\ input.value = <<97, BACKSLASH, 1, DQUOTE>>
    /\ apOut.err # NoErr

-----------------------------------------------------------------------------
(* Malformed segments inside a parameter list.                             *)

\* The Params the well-formed segments among segs[i..] denote, in order.
RECURSIVE WellFormedParamsFrom(_, _)
WellFormedParamsFrom(segs, i) ==
    IF i > Len(segs) THEN << >>
    ELSE (IF segs[i].ok THEN <<segs[i].param>> ELSE << >>)
         \o WellFormedParamsFrom(segs, i + 1)

\* The parameter list has a malformed or empty segment between two commas,
\* after a well-formed first auth-param and before a well-formed last one.
HasSkippedSegment(segs) ==
    /\ Len(segs) >= 3
    /\ segs[1].ok
    /\ segs[Len(segs)].ok
    /\ \E i \in 2..(Len(segs) - 1) : ~segs[i].ok

\* C26: an empty or malformed segment between two commas of a parameter list
\* is skipped: when a later segment is a well-formed auth-param the parse
\* succeeds with one challenge whose Params are exactly the well-formed
\* auth-params in input order (`Bearer a=1,,b=2`, `Bearer a=1,junk,b=2`).
C26_MalformedSegmentSkipped ==
    (input.kind = "params" /\ HasSkippedSegment(input.segs) /\ Ended) =>
        /\ result.status = "ok"
        /\ result.challenges =
             <<Challenge(input.scheme, WellFormedParamsFrom(input.segs, 1), EmptyString)>>

-----------------------------------------------------------------------------
(* A scheme without anything after it.                                     *)

\* The k for which hv is a scheme token of k octets followed by spaces only
\* (or by nothing).
SchemeThenSpaces(hv) ==
    {k \in 1..Len(hv) :
        /\ IsToken(SubSeq(hv, 1, k))
        /\ \A i \in (k + 1)..Len(hv) : hv[i] = SP}

\* C27: a header value that is a scheme token alone, or a scheme token
\* followed only by spaces, parses without error to exactly one challenge
\* with that scheme, an empty Token68 and no params.
C27_SchemeAlone ==
    \A k \in SchemeThenSpaces(headerValue) :
        /\ pc # "panic"
        /\ pc = "done" =>
             /\ result.status = "ok"
             /\ result.challenges =
                  <<Challenge(SubSeq(headerValue, 1, k), << >>, EmptyString)>>

\* C27's case: a scheme of two octets followed by two spaces has been
\* parsed.
C27_Witness ==
    /\ pc = "done"
    /\ headerValue = <<97, 33, SP, SP>>
    /\ result.status = "ok"
    /\ Len(result.challenges) = 1

-----------------------------------------------------------------------------
(* Safety of the parse and of what it returns.                             *)

\* C28: for every input string ParseWwwAuthenticateHeaderValue returns
\* either a challenge list or an error and never panics: the octet
\* classification table is never indexed with the end-of-input sentinel -1
\* (as on `Scheme abc`, where the auth-param attempt fails at the end of the
\* input).
C28_NeverPanics ==
    /\ pc # "panic"
    /\ \A c \in AuthParamCalls :
           (pc = "challengeL" /\ c.a.err # NoErr) => c.a.q.b \in 0..255
    /\ pc = "done" => result.status \in {"ok", "error"}

-----------------------------------------------------------------------------
(* An evaluator that fails.                                                *)

\* The operations whose evaluator returned a nil value with an error.
FailedEvaluations ==
    {o \in 1..Len(ops) :
        /\ ops[o].g \in {"returned", "lock", "locked", "done"}
        /\ ~ops[o].panicked
        /\ ops[o].value = 0
        /\ ops[o].err # NoErr}

\* C30: when the evaluator returns a nil value with an error, every caller
\* that waited for that evaluation receives the error, the cached value is
\* not replaced, no goroutine crashes, and once the evaluating goroutine is
\* through the operation is cleared, so that a later Evaluate starts a new
\* evaluation.
C30_FailedEvaluationIsReported ==
    \A o \in FailedEvaluations :
        /\ ~crashed
        /\ ops[o].g = "done" => (cache.operation # o /\ cache.value # o)
        /\ \A k \in Callers :
             (callers[k].o = o /\ callers[k].pc = "returned" /\ ~callers[k].ctxDone) =>
                 (callers[k].value = 0 /\ callers[k].err = ops[o].err)

-----------------------------------------------------------------------------
(* ParseRange (package http).                                              *)
(*   rangePc = "ParseRange"            about to call ParseRange(req)       *)
(*             "parseRangeHeaderValue" at the top of parseRangeHeaderValue *)
(*             "byteRangeSpec"         at the top of its loop              *)
(*             "returned"              ParseRange has returned             *)

HYPHEN == 45

\* "bytes="
StrBytesEquals == <<98, 121, 116, 101, 115, EQUALS>>

\* strings.HasPrefix(s, prefix)
HasPrefix(s, prefix) ==
    Len(s) >= Len(prefix) /\ SubSeq(s, 1, Len(prefix)) = prefix

\* The decimal digits of 1<<63 - 1 and of 1<<63, the largest magnitudes of a
\* positive and of a negative int64.
StrMaxInt64 == <<57, 50, 50, 51, 51, 55, 50, 48, 51, 54, 56, 53, 52, 55, 55, 53, 56, 48, 55>>
StrMinInt64 == <<57, 50, 50, 51, 51, 55, 50, 48, 51, 54, 56, 53, 52, 55, 55, 53, 56, 48, 56>>

RECURSIVE StripZeros(_)
StripZeros(s) == IF Len(s) > 1 /\ Head(s) = 48 THEN StripZeros(Tail(s)) ELSE s

\* The number the decimal digits s[1..i] spell.
RECURSIVE DecimalValue(_, _)
DecimalValue(s, i) == IF i = 0 THEN 0 ELSE DecimalValue(s, i - 1) * 10 + (s[i] - 48)

\* s spells a larger number than t; both are digit strings without leading
\* zeros.
DecimalGreater(s, t) ==
    \/ Len(s) > Len(t)
    \/ /\ Len(s) = Len(t)
       /\ \E i \in 1..Len(s) :
             s[i] > t[i] /\ \A k \in 1..(i - 1) : s[k] = t[k]

\* strconv.ParseInt(s, 10, 64): an optional sign (+ or -), then one or more
\* decimal digits; a number outside int64 is an error.
ParseInt(s) ==
    IF s = << >> THEN [val |-> 0, err |-> "invalid syntax"]
    ELSE LET neg == s[1] = HYPHEN
             digits == IF s[1] \in {43, HYPHEN} THEN Tail(s) ELSE s
         IN  IF digits = << >> \/ \E i \in 1..Len(digits) : ~IsDigit(digits[i])
             THEN [val |-> 0, err |-> "invalid syntax"]
             ELSE IF DecimalGreater(StripZeros(digits),
                                    IF neg THEN StrMinInt64 ELSE StrMaxInt64)
             THEN [val |-> 0, err |-> "value out of range"]
             ELSE [val |-> (IF neg THEN -1 ELSE 1) * DecimalValue(digits, Len(digits)),
                   err |-> NoErr]

Range(firstBytePos, lastBytePos) ==
    [FirstBytePos |-> firstBytePos, LastBytePos |-> lastBytePos]

\* parseRangeHeaderValue, lines 54-88: the Range of one byte-range-spec, or
\* the error.
ByteRangeSpecRange(byteRangeSpec) ==
    LET hyphenPos == IndexByte(byteRangeSpec, HYPHEN) IN
    IF hyphenPos < 0
    THEN [range |-> Range(0, 0), err |-> "byte-range-spec that contains no hyphen"]
    ELSE IF hyphenPos = 0
    THEN LET suffixLength == ParseInt(byteRangeSpec) IN
         IF suffixLength.err # NoErr
         THEN [range |-> Range(0, 0), err |-> "invalid or too large suffix-length"]
         ELSE [range |-> Range(-1, suffixLength.val), err |-> NoErr]
    ELSE LET firstBytePos == ParseInt(Slice(byteRangeSpec, 0, hyphenPos)) IN
         IF firstBytePos.err # NoErr
         THEN [range |-> Range(0, 0), err |-> "invalid or too large first-byte-pos"]
         ELSE IF hyphenPos + 1 < Len(byteRangeSpec)
         THEN LET lastBytePos ==
                      ParseInt(Slice(byteRangeSpec, hyphenPos + 1, Len(byteRangeSpec)))
              IN  IF lastBytePos.err # NoErr
                  THEN [range |-> Range(0, 0), err |-> "invalid or too large last-byte-pos"]
                  ELSE [range |-> Range(firstBytePos.val, lastBytePos.val), err |-> NoErr]
         ELSE [range |-> Range(firstBytePos.val, -1), err |-> NoErr]

\* parseRangeHeaderValue, lines 92-98: the end of the optional white space
\* that starts at index owsEnd of remainder.
RECURSIVE OwsEnd(_, _)
OwsEnd(s, owsEnd) ==
    IF owsEnd = Len(s) \/ (s[owsEnd + 1] # SP /\ s[owsEnd + 1] # HTAB) THEN owsEnd
    ELSE OwsEnd(s, owsEnd + 1)

\* return from ParseRange
RangeReturn(status, rs, err) ==
    /\ rangeRet' = [status |-> status, ranges |-> rs, err |-> err]
    /\ rangePc' = "returned"

\* ParseRange, lines 27-34 and 42: the number of headers named Range.
ParseRange ==
    /\ rangePc = "ParseRange"
    /\ IF Len(headerValues) > 1
       THEN /\ RangeReturn("error", << >>, "multiple headers named Range are not supported")
            /\ UNCHANGED remainder
       ELSE IF Len(headerValues) = 0
       THEN /\ RangeReturn("ok", << >>, NoErr)
            /\ UNCHANGED remainder
       ELSE /\ remainder' = headerValues[1]
            /\ rangePc' = "parseRangeHeaderValue"
            /\ UNCHANGED rangeRet
    /\ UNCHANGED <<headerValues, ranges>>
    /\ UNCHANGED <<httpVars, authVars, cacheVars, parallelVars, verifyVars>>

\* parseRangeHeaderValue, lines 43-47 (and 35-37 on the error).
ParseRangePrefix ==
    /\ rangePc = "parseRangeHeaderValue"
    /\ IF ~HasPrefix(remainder, StrBytesEquals)
       THEN /\ RangeReturn("error", << >>, "value does not start with bytes=")
            /\ UNCHANGED remainder
       ELSE /\ remainder' = Slice(remainder, Len(StrBytesEquals), Len(remainder))
            /\ rangePc' = "byteRangeSpec"
            /\ UNCHANGED rangeRet
    /\ UNCHANGED <<headerValues, ranges>>
    /\ UNCHANGED <<httpVars, authVars, cacheVars, parallelVars, verifyVars>>

\* parseRangeHeaderValue, lines 48-101 (and 35-38): one iteration of the
\* loop.
ByteRangeSpec ==
    /\ rangePc = "byteRangeSpec"
    /\ LET commaPos == IndexByte(remainder, COMMA)
           byteRangeSpec == IF commaPos >= 0 THEN Slice(remainder, 0, commaPos)
                            ELSE remainder
           r == ByteRangeSpecRange(byteRangeSpec)
       IN  IF r.err # NoErr
           THEN /\ RangeReturn("error", << >>, r.err)
                /\ UNCHANGED <<remainder, ranges>>
           ELSE /\ ranges' = Append(ranges, r.range)
                /\ IF commaPos < 0
                   THEN /\ RangeReturn("ok", ranges', NoErr)
                        /\ UNCHANGED remainder
                   ELSE /\ remainder' = Slice(remainder, OwsEnd(remainder, commaPos + 1),
                                              Len(remainder))
                        /\ UNCHANGED <<rangePc, rangeRet>>
    /\ UNCHANGED headerValues
    /\ UNCHANGED <<httpVars, authVars, cacheVars, parallelVars, verifyVars>>

(* Requests: no header named Range, one with every value bytes= followed by *)
(* an octet string over RangeOctets of length at most MaxRangeLen (0, 2,   *)
(* -, +, comma and space), one value without the prefix, and two          *)
(* headers.                                                                *)
MaxRangeLen == 4
RangeOctets == {48, 50, HYPHEN, 43, COMMA, SP}

RangeHeaderValues ==
    {StrBytesEquals \o body : body \in SeqsUpTo(RangeOctets, MaxRangeLen)}
        \cup {<<98, 61, 48, HYPHEN>>}

InitRange ==
    /\ StartHttp([NoInput EXCEPT !.kind = "range"], EmptyString, "range")
    /\ CacheIdle
    /\ ParallelIdle
    /\ VerifyIdle
    /\ headerValues \in {<< >>, <<StrBytesEquals \o <<48, HYPHEN>>, StrBytesEquals \o <<HYPHEN, 50>> >>}
                           \cup {<<hv>> : hv \in RangeHeaderValues}
    /\ remainder = EmptyString
    /\ ranges = << >>
    /\ rangePc = "ParseRange"
    /\ rangeRet = NoRangeRet

NextRange == ParseRange \/ ParseRangePrefix \/ ByteRangeSpec
SpecRange == InitRange /\ [][NextRange]_vars

\* The documented invariant of the fields of a Range (lines 12-22).
RangeFieldsValid(r) ==
    \/ r.FirstBytePos = -1 /\ r.LastBytePos < 0
    \/ r.FirstBytePos >= 0 /\ (r.LastBytePos = -1 \/ r.LastBytePos >= 0)

\* C22: every Range that ParseRange returns satisfies the documented field
\* invariant: FirstBytePos is -1 and LastBytePos is negative, or FirstBytePos
\* is >= 0 and LastBytePos is -1 or >= 0; a header value that would give
\* other field values is refused with an error.
C22_RangeFieldInvariant ==
    (rangePc = "returned" /\ rangeRet.status = "ok") =>
        \A i \in 1..Len(rangeRet.ranges) : RangeFieldsValid(rangeRet.ranges[i])

-----------------------------------------------------------------------------
(* InstanceIdentityVerifier.Verify (package compute).                      *)
(*   verify.pc = "Verify"   about to call a.Verify(ctx, jwtString)         *)
(*               "go"       the claims of the JWT passed the local tests   *)
(*               "receive"  at err = <-errChannel                          *)
(*               "received" a value was received                           *)
(*               "returned" Verify has returned                            *)
(* A goroutine of a check is at "check" (in its call), "send" (at          *)
(* errChannel <- err) or "done".  errChannel is unbuffered: a send and the *)
(* receive happen together.                                                *)

\* The two checks that run concurrently.
Checks == {"validateClaims2", "validateServiceAccountClaims"}

\* What a check returns: nil, a *VerifyError or another error.
CheckResults == {"nil", "VerifyError", "error"}

NoChecker == [pc |-> "notStarted", err |-> NoError]

\* Lines 213-260: the tests before the two checks; each failure returns nil
\* and an error.
VerifyClaims ==
    /\ verify.pc = "Verify"
    /\ verify' = IF checks["claims"] # "nil"
                 THEN [verify EXCEPT
                         !.pc = "returned",
                         !.ret = [identity |-> "nil",
                                  err |-> [kind |-> checks["claims"], of |-> "claims"]]]
                 ELSE [verify EXCEPT !.pc = "go"]
    /\ UNCHANGED <<checks, checkers, ctxDone>>
    /\ UNCHANGED <<httpVars, authVars, cacheVars, parallelVars, rangeVars>>

\* Lines 262-292: errChannel, the cancellable context and the two go
\* statements.
VerifyGo ==
    /\ verify.pc = "go"
    /\ checkers' = [c \in Checks |-> [NoChecker EXCEPT !.pc = "check"]]
    /\ verify' = [verify EXCEPT !.pc = "receive"]
    /\ UNCHANGED <<checks, ctxDone>>
    /\ UNCHANGED <<httpVars, authVars, cacheVars, parallelVars, rangeVars>>

\* Lines 266-278 and 282-290: the check returns; an error is wrapped.  Once
\* ctx is cancelled the call of the Google API can fail with ctx's error.
CheckReturns(c) ==
    /\ checkers[c].pc = "check"
    /\ \E out \in {checks[c]} \cup (IF ctxDone THEN {"error"} ELSE {}) :
          checkers' = [checkers EXCEPT
                         ![c].pc = "send",
                         ![c].err = IF out = "nil" THEN NoError
                                    ELSE [kind |-> out, of |-> c]]
    /\ UNCHANGED <<checks, verify, ctxDone>>
    /\ UNCHANGED <<httpVars, authVars, cacheVars, parallelVars, rangeVars>>

\* Lines 279 and 291 with line 293: errChannel <- err meets err = <-errChannel.
Receive(c) ==
    /\ checkers[c].pc = "send"
    /\ verify.pc = "receive"
    /\ verify' = [verify EXCEPT !.pc = "received", !.err = checkers[c].err]
    /\ checkers' = [checkers EXCEPT ![c].pc = "done"]
    /\ UNCHANGED <<checks, ctxDone>>
    /\ UNCHANGED <<httpVars, authVars, cacheVars, parallelVars, rangeVars>>

\* Lines 294-300, and the deferred cancelFunc() of line 264.
VerifyReturn ==
    /\ verify.pc = "received"
    /\ verify' = [verify EXCEPT
                    !.pc = "returned",
                    !.ret = IF verify.err # NoError
                            THEN [identity |-> "nil", err |-> verify.err]
                            ELSE [identity |-> "InstanceIdentity", err |-> NoError]]
    /\ ctxDone' = TRUE
    /\ UNCHANGED <<checks, checkers>>
    /\ UNCHANGED <<httpVars, authVars, cacheVars, parallelVars, rangeVars>>

\* Verify on every choice of what the local tests and the two checks find.
InitVerify ==
    /\ StartHttp([NoInput EXCEPT !.kind = "verify"], EmptyString, "verify")
    /\ CacheIdle
    /\ ParallelIdle
    /\ RangeIdle
    /\ checks \in [Checks \cup {"claims"} -> CheckResults]
    /\ checks["claims"] # "error"
    /\ checkers = [c \in Checks |-> NoChecker]
    /\ verify = [pc |-> "Verify", err |-> NoError, ret |-> NoVerifyRet]
    /\ ctxDone = FALSE

\* Every interleaving of Verify and the goroutines of the two checks.
NextVerify ==
    \/ VerifyClaims
    \/ VerifyGo
    \/ VerifyReturn
    \/ \E c \in Checks :
          \/ CheckReturns(c)
          \/ Receive(c)

SpecVerify == InitVerify /\ [][NextVerify]_vars

\* C21: Verify returns a non-nil InstanceIdentity with a nil error only if
\* the compute-engine check (validateClaims2) and the service-account check
\* (validateServiceAccountClaims) have both completed and returned nil, and
\* if either check returns an error Verify returns an error, under every
\* interleaving of the two checks.
C21_BothChecksPass ==
    verify.pc = "returned" =>
        /\ (verify.ret.identity # "nil" /\ verify.ret.err = NoError) =>
               \A c \in Checks :
                   /\ checkers[c].pc \in {"send", "done"}
                   /\ checkers[c].err = NoError
        /\ (\E c \in Checks : checks[c] # "nil") => verify.ret.err # NoError

=============================================================================
